---- MODULE Spec2Model ----
(***************************************************************************)
(* Model of the Lemon Banjo product pages: the option dependency and       *)
(* pricing resolution engine of productInfo.js (provider defaults,         *)
(* pruneInvalidDependents, normalizeDependents, draw, calcPrice), the      *)
(* updateOptionVisibility / recalcPrice engine of the later page scripts   *)
(* (part_007, part_004, customBuilder.js) and the page initialisers.       *)
(***************************************************************************)
EXTENDS Integers, Sequences, FiniteSets, TLC

VARIABLES
    page,            \* which page script runs in this page view
    pc,              \* "loading" | "ready" | "failed" : position of the initialiser
    sheet,           \* the tables the data source answers with (input)
    product,         \* LemonState.product (NoProduct until loaded)
    optionsByCanon,  \* LemonState.optionsByCanon: sequence of [key, options] in Object.entries order
    selected,        \* LemonState.selected: insertion-ordered map, a sequence of [k, v]
    total,           \* LemonState.total / the regular total last written to #productPrice
    saleTotal,       \* the sale total last written to #productPrice (0 when none is shown)
    rendered,        \* the choice widgets: sequence of [k, opts] (option names offered per group)
    dom,             \* [title, price, options]: what #productTitle, #productPrice, #productOptions hold;
                     \* inputs: the groups whose free-text input has display 'block';
                     \* nameText: the value of #nameBlockCustomInput of part_004 ('' where
                     \* there is none); sentText: that value as updateEmailConfig last read it
    fn,              \* inputs and result of the pure-function specifications
    event            \* history: the handler that ran last and the selection it started from

vars == <<page, pc, sheet, product, optionsByCanon, selected, total, saleTotal, rendered, dom, fn, event>>

(***************************************************************************)
(* JavaScript values                                                       *)
(***************************************************************************)
\* null / undefined (a Map.get miss, an absent cell)
NULL == "<null>"

\* String.prototype.toLowerCase on the strings the model uses
toLowerCase(s) ==
    CASE s = "Brass"  -> "brass"
      [] s = "Bronze" -> "bronze"
      [] s = "BRONZE" -> "bronze"
      [] s = "Custom" -> "custom"
      [] s = "Plain"  -> "plain"
      [] s = "Vine"   -> "vine"
      [] s = "Dots"   -> "dots"
      [] s = "TRUE"   -> "true"
      [] s = "True"   -> "true"
      [] s = "FALSE"  -> "false"
      [] s = "PCT"    -> "pct"
      [] s = "Percent" -> "percent"
      [] s = "Standard" -> "standard"
      [] s = "Custom Name" -> "custom name"
      [] s = "Tone Ring" -> "tone ring"
      [] s = "Engraving" -> "engraving"
      [] s = "Inlay" -> "inlay"
      [] s = "Name Block" -> "name block"
      [] OTHER        -> s

\* s.startsWith('custom') for a lower-cased option name of the model
startsWithCustom(s) == s \in {"custom", "custom name"}

\* cleanStr: null becomes '', everything else is trimmed (the model's strings carry no
\* leading/trailing blanks or non-breaking spaces, so trimming leaves them as they are)
cleanStr(v) == IF v = NULL THEN "" ELSE v

lc(v) == toLowerCase(cleanStr(v))

\* JavaScript truthiness of a string-or-null value
Truthy(v) == v # NULL /\ v # ""

(***************************************************************************)
(* Map / plain-object with insertion order                                 *)
(***************************************************************************)
MapKeys(m) == {m[i].k : i \in 1..Len(m)}

MapHas(m, key) == key \in MapKeys(m)

MapGet(m, key) ==
    IF MapHas(m, key)
    THEN m[CHOOSE i \in 1..Len(m) : m[i].k = key].v
    ELSE NULL

\* Map.set: an existing key keeps its position, a new key is appended
MapSet(m, key, val) ==
    IF MapHas(m, key)
    THEN [i \in 1..Len(m) |-> IF m[i].k = key THEN [k |-> key, v |-> val] ELSE m[i]]
    ELSE Append(m, [k |-> key, v |-> val])

MapDelete(m, key) == SelectSeq(m, LAMBDA e : e.k # key)

(***************************************************************************)
(* Array helpers                                                           *)
(***************************************************************************)
\* Array.prototype.some on option names
SomeNamed(list, name) == \E i \in 1..Len(list) : list[i].option_name = name

\* Array.prototype.find by exact option name: the first match (used only when one exists)
FindNamed(list, name) ==
    list[CHOOSE i \in 1..Len(list) :
            /\ list[i].option_name = name
            /\ \A j \in 1..(i-1) : list[j].option_name # name]

RECURSIVE InsertBySort(_, _)
\* insert o after every element whose sort is <= o.sort (keeps equal ranks in input order)
InsertBySort(sorted, o) ==
    IF sorted = <<>> THEN <<o>>
    ELSE IF Head(sorted).sort <= o.sort
         THEN <<Head(sorted)>> \o InsertBySort(Tail(sorted), o)
         ELSE <<o>> \o sorted

RECURSIVE SortBySort(_)
\* [...list].sort((a, b) => a.sort - b.sort): stable, ascending
SortBySort(list) ==
    IF list = <<>> THEN <<>>
    ELSE InsertBySort(SortBySort(SubSeq(list, 1, Len(list) - 1)), list[Len(list)])

\* optionsByCanon[g] || []
OptionsOf(cat, g) ==
    IF \E i \in 1..Len(cat) : cat[i].key = g
    THEN cat[CHOOSE i \in 1..Len(cat) : cat[i].key = g].options
    ELSE <<>>

GroupKeys(cat) == {cat[i].key : i \in 1..Len(cat)}

(***************************************************************************)
(* productInfo.js: dependency test, default choice, price                  *)
(***************************************************************************)
\* a faulty dependencyOk: an option whose dependency group has no selection passes
dependencyOkWhenUnset(option, selectedMap) ==
    IF ~Truthy(option.dep_groupCanon) THEN TRUE
    ELSE LET selectedVal == lc(MapGet(selectedMap, option.dep_groupCanon))
         IN  IF selectedVal = "" THEN TRUE
             ELSE selectedVal = lc(option.dep_value)

dependencyOk(option, selectedMap) ==
    IF ~Truthy(option.dep_groupCanon) THEN TRUE
    ELSE LET selectedVal == lc(MapGet(selectedMap, option.dep_groupCanon))
         IN  IF selectedVal = "" THEN FALSE
             ELSE selectedVal = lc(option.dep_value)

\* a faulty chooseDefault: the current selection is not looked at
chooseIgnoringCurrent(validList, currentName) ==
    IF Len(validList) = 0 THEN NULL
    ELSE IF \E i \in 1..Len(validList) : validList[i].is_default
         THEN validList[CHOOSE i \in 1..Len(validList) :
                           /\ validList[i].is_default
                           /\ \A j \in 1..(i-1) : ~validList[j].is_default].option_name
         ELSE validList[1].option_name

\* a faulty chooseDefault: no fall-back to the first option when none is flagged default
chooseFlaggedOnly(validList, currentName) ==
    IF Len(validList) = 0 THEN NULL
    ELSE IF Truthy(currentName) /\ SomeNamed(validList, currentName) THEN currentName
    ELSE IF \E i \in 1..Len(validList) : validList[i].is_default
         THEN validList[CHOOSE i \in 1..Len(validList) :
                           /\ validList[i].is_default
                           /\ \A j \in 1..(i-1) : ~validList[j].is_default].option_name
         ELSE NULL

chooseDefault(validList, currentName) ==
    IF Len(validList) = 0 THEN NULL
    ELSE IF Truthy(currentName) /\ SomeNamed(validList, currentName) THEN currentName
    ELSE IF \E i \in 1..Len(validList) : validList[i].is_default
         THEN validList[CHOOSE i \in 1..Len(validList) :
                           /\ validList[i].is_default
                           /\ \A j \in 1..(i-1) : ~validList[j].is_default].option_name
         ELSE validList[1].option_name

\* base * (delta / 100); the model's bases are multiples of 100, so the quotient is exact
PctOf(base, delta) == (base * delta) \div 100

RECURSIVE calcPriceCompounding(_, _, _, _)
\* a faulty calcPrice: a percentage is taken of the running total
calcPriceCompounding(acc, base, sel, cat) ==
    IF sel = <<>> THEN acc
    ELSE LET list == OptionsOf(cat, Head(sel).k)
             item == FindNamed(list, Head(sel).v)
             step == IF ~SomeNamed(list, Head(sel).v) THEN 0
                     ELSE IF item.price_type = "add" THEN item.price_delta
                     ELSE IF item.price_type = "pct" THEN PctOf(acc, item.price_delta)
                     ELSE IF item.price_type = "abs" THEN item.price_delta
                     ELSE 0
         IN  calcPriceCompounding(acc + step, base, Tail(sel), cat)

RECURSIVE calcPriceAbsOverrides(_, _, _, _)
\* a faulty calcPrice: an abs option replaces the running total by base + delta
calcPriceAbsOverrides(acc, base, sel, cat) ==
    IF sel = <<>> THEN acc
    ELSE LET list == OptionsOf(cat, Head(sel).k)
             item == FindNamed(list, Head(sel).v)
             next == IF ~SomeNamed(list, Head(sel).v) THEN acc
                     ELSE IF item.price_type = "add" THEN acc + item.price_delta
                     ELSE IF item.price_type = "pct" THEN acc + PctOf(base, item.price_delta)
                     ELSE IF item.price_type = "abs" THEN base + item.price_delta
                     ELSE acc
         IN  calcPriceAbsOverrides(next, base, Tail(sel), cat)

RECURSIVE calcPriceStopsAtMissing(_, _, _, _)
\* a faulty calcPrice: the loop ends at the first entry whose option is not found
calcPriceStopsAtMissing(acc, base, sel, cat) ==
    IF sel = <<>> THEN acc
    ELSE LET list == OptionsOf(cat, Head(sel).k)
             item == FindNamed(list, Head(sel).v)
         IN  IF ~SomeNamed(list, Head(sel).v) THEN acc
             ELSE calcPriceStopsAtMissing(
                      acc + (IF item.price_type = "add" THEN item.price_delta
                             ELSE IF item.price_type = "pct" THEN PctOf(base, item.price_delta)
                             ELSE IF item.price_type = "abs" THEN item.price_delta
                             ELSE 0),
                      base, Tail(sel), cat)

RECURSIVE calcPriceFrom(_, _, _, _)
\* the loop of calcPrice, acc being the running total
calcPriceFrom(acc, base, sel, cat) ==
    IF sel = <<>> THEN acc
    ELSE LET list == OptionsOf(cat, Head(sel).k)
             item == FindNamed(list, Head(sel).v)
             step == IF ~SomeNamed(list, Head(sel).v) THEN 0
                     ELSE IF item.price_type = "add" THEN item.price_delta
                     ELSE IF item.price_type = "pct" THEN PctOf(base, item.price_delta)
                     ELSE IF item.price_type = "abs" THEN item.price_delta
                     ELSE 0
         IN  calcPriceFrom(acc + step, base, Tail(sel), cat)

calcPrice(base, sel, cat) == calcPriceFrom(base, base, sel, cat)

(***************************************************************************)
(* productInfo.js: renderOptions                                           *)
(***************************************************************************)
\* Object.entries(optionsByCanon).map(([gCanon, list]) => [gCanon, [...list].sort(...)])
entries(cat) == [i \in 1..Len(cat) |-> [key |-> cat[i].key, options |-> SortBySort(cat[i].options)]]

\* a faulty isDependent: every option of the group must carry a dependency
isDependentEvery(e) == \A i \in 1..Len(e.options) : Truthy(e.options[i].dep_groupCanon)

isDependent(e) == \E i \in 1..Len(e.options) : Truthy(e.options[i].dep_groupCanon)

providers(cat) == SelectSeq(entries(cat), LAMBDA e : ~isDependent(e))

dependents(cat) == SelectSeq(entries(cat), LAMBDA e : isDependent(e))

IsVisible(o) == o.visible

\* list.filter(o => o.visible && dependencyOk(o, selected))
ValidOptions(list, sel) == SelectSeq(list, LAMBDA o : o.visible /\ dependencyOk(o, sel))

RECURSIVE providerDefaultsKeepStale(_, _)
\* a faulty provider-defaults loop: a provider with no visible option is skipped and
\* keeps whatever entry it had
providerDefaultsKeepStale(provs, sel) ==
    IF provs = <<>> THEN sel
    ELSE LET g       == Head(provs).key
             visible == SelectSeq(Head(provs).options, IsVisible)
             next    == chooseDefault(visible, MapGet(sel, g))
         IN  IF Len(visible) = 0
             THEN providerDefaultsKeepStale(Tail(provs), sel)
             ELSE providerDefaultsKeepStale(Tail(provs), IF Truthy(next) THEN MapSet(sel, g, next) ELSE sel)

RECURSIVE providerDefaultsFlaggedOnly(_, _)
\* a faulty provider-defaults loop: a provider gets an entry only from an option flagged
\* is_default
providerDefaultsFlaggedOnly(provs, sel) ==
    IF provs = <<>> THEN sel
    ELSE LET g       == Head(provs).key
             visible == SelectSeq(Head(provs).options, IsVisible)
             flagged == SelectSeq(visible, LAMBDA o : o.is_default)
         IN  IF Len(flagged) = 0
             THEN providerDefaultsFlaggedOnly(Tail(provs), MapDelete(sel, g))
             ELSE providerDefaultsFlaggedOnly(Tail(provs), MapSet(sel, g, flagged[1].option_name))

RECURSIVE providerDefaults(_, _)
\* the loop over providers that precedes draw(): a provider with no visible option loses
\* its entry, every other provider gets chooseDefault over its visible options
providerDefaults(provs, sel) ==
    IF provs = <<>> THEN sel
    ELSE LET g       == Head(provs).key
             visible == SelectSeq(Head(provs).options, IsVisible)
             next    == chooseDefault(visible, MapGet(sel, g))
         IN  IF Len(visible) = 0
             THEN providerDefaults(Tail(provs), MapDelete(sel, g))
             ELSE providerDefaults(Tail(provs), IF Truthy(next) THEN MapSet(sel, g, next) ELSE sel)

RECURSIVE pruneWithDependencyGroup(_, _)
\* a faulty prune pass: a dependent group with no valid option loses its entry and so does
\* the group its first option depends on
pruneWithDependencyGroup(deps, sel) ==
    IF deps = <<>> THEN sel
    ELSE LET valid == ValidOptions(Head(deps).options, sel)
         IN  pruneWithDependencyGroup(Tail(deps),
                 IF Len(valid) = 0
                 THEN MapDelete(MapDelete(sel, Head(deps).key), Head(deps).options[1].dep_groupCanon)
                 ELSE sel)

RECURSIVE pruneInvalidDependents(_, _)
pruneInvalidDependents(deps, sel) ==
    IF deps = <<>> THEN sel
    ELSE LET valid == ValidOptions(Head(deps).options, sel)
         IN  pruneInvalidDependents(Tail(deps),
                 IF Len(valid) = 0 THEN MapDelete(sel, Head(deps).key) ELSE sel)

RECURSIVE normalizeMissingOnly(_, _)
\* a faulty normalize pass: only a dependent group without an entry is given a choice
normalizeMissingOnly(deps, sel) ==
    IF deps = <<>> THEN sel
    ELSE LET g     == Head(deps).key
             valid == ValidOptions(Head(deps).options, sel)
             next  == chooseDefault(valid, NULL)
         IN  normalizeMissingOnly(Tail(deps),
                 IF ~MapHas(sel, g) /\ Truthy(next) THEN MapSet(sel, g, next) ELSE sel)

RECURSIVE normalizeKeepingInvalid(_, _)
\* a faulty normalize pass: a dependent group with no valid option keeps its entry
normalizeKeepingInvalid(deps, sel) ==
    IF deps = <<>> THEN sel
    ELSE LET g     == Head(deps).key
             valid == ValidOptions(Head(deps).options, sel)
             next  == chooseDefault(valid, MapGet(sel, g))
         IN  normalizeKeepingInvalid(Tail(deps), IF Truthy(next) THEN MapSet(sel, g, next) ELSE sel)

RECURSIVE normalizeDependents(_, _)
normalizeDependents(deps, sel) ==
    IF deps = <<>> THEN sel
    ELSE LET g     == Head(deps).key
             valid == ValidOptions(Head(deps).options, sel)
             next  == chooseDefault(valid, MapGet(sel, g))
         IN  normalizeDependents(Tail(deps),
                 IF Truthy(next) THEN MapSet(sel, g, next) ELSE MapDelete(sel, g))

\* a faulty settlement pass: dependents are pruned but never given a default
pruneOnly(cat, sel) == pruneInvalidDependents(dependents(cat), sel)

\* the first two statements of draw(): the settlement pass
drawSettle(cat, sel) == normalizeDependents(dependents(cat), pruneInvalidDependents(dependents(cat), sel))

OptionNames(list) == [i \in 1..Len(list) |-> list[i].option_name]

\* a faulty draw(): every visible option is offered, whatever its dependency
drawWidgetsVisibleOnly(cat, sel) ==
    LET ordered == providers(cat) \o dependents(cat)
        blocks  == [i \in 1..Len(ordered) |->
                      [k |-> ordered[i].key, opts |-> OptionNames(SelectSeq(ordered[i].options, IsVisible))]]
    IN  SelectSeq(blocks, LAMBDA b : Len(b.opts) > 0)

\* the widgets draw() builds: providers first, then dependents, a group with no valid
\* option is skipped
drawWidgets(cat, sel) ==
    LET ordered == providers(cat) \o dependents(cat)
        blocks  == [i \in 1..Len(ordered) |->
                      [k    |-> ordered[i].key,
                       opts |-> OptionNames(SelectSeq(ordered[i].options,
                                   LAMBDA o : o.visible /\ (~Truthy(o.dep_groupCanon) \/ dependencyOk(o, sel))))]]
    IN  SelectSeq(blocks, LAMBDA b : Len(b.opts) > 0)

\* sel.value of a <select> draw() has built: the option flagged selected, which is the
\* group's entry when the list offers it, else the first option of the list
selValue(opts, current) ==
    IF \E j \in 1..Len(opts) : opts[j] = current THEN current ELSE opts[1]

\* a faulty draw(): the total is taken before the settlement pass
totalBeforeSettle(base, cat, sel) == calcPrice(base, sel, cat)

\* draw(): the settlement pass, then the total over the settled selection
drawTotal(base, cat, sel) == calcPrice(base, drawSettle(cat, sel), cat)

\* the select change handler up to its call of draw()
selectChange(cat, sel, g, value) ==
    LET s1 == MapSet(sel, g, value)
        changingIsProvider == \E i \in 1..Len(providers(cat)) : providers(cat)[i].key = g
    IN  IF changingIsProvider THEN pruneInvalidDependents(dependents(cat), s1) ELSE s1

(***************************************************************************)
(* part_007 / part_004 / customBuilder.js: renderOptions,                  *)
(* updateOptionVisibility, recalcPrice                                     *)
(***************************************************************************)
\* the first option flagged is_default, else the first option (defaultName)
defaultName(options) ==
    IF \E i \in 1..Len(options) : options[i].is_default
    THEN options[CHOOSE i \in 1..Len(options) :
                    /\ options[i].is_default
                    /\ \A j \in 1..(i-1) : ~options[j].is_default].option_name
    ELSE options[1].option_name

RECURSIVE initialSelection(_, _)
\* part_007 renderOptions: every group with options gets  existing || defaultName ,
\* whatever the visibility of its options
initialSelection(cat, sel) ==
    IF cat = <<>> THEN sel
    ELSE IF Len(Head(cat).options) = 0
    THEN \* if (!options || !options.length) return
         initialSelection(Tail(cat), sel)
    ELSE LET g        == Head(cat).key
             existing == MapGet(sel, g)
             initial  == IF Truthy(existing) THEN existing ELSE defaultName(Head(cat).options)
         IN  initialSelection(Tail(cat), MapSet(sel, g, initial))

RECURSIVE buildOptionBlocks(_, _)
\* customBuilder.js renderOptions and buildOptionBlock: every group with options gets
\* defaultName
buildOptionBlocks(cat, sel) ==
    IF cat = <<>> THEN sel
    ELSE IF Len(Head(cat).options) = 0
    THEN \* renderOptions: if (!opts?.length) return
         buildOptionBlocks(Tail(cat), sel)
    ELSE buildOptionBlocks(Tail(cat), MapSet(sel, Head(cat).key, defaultName(Head(cat).options)))

\* the per-option test of updateOptionVisibility
optionShown(opt, sel) ==
    IF opt.visible /\ Truthy(opt.dep_groupCanon) /\ Truthy(opt.dep_value)
    THEN toLowerCase(cleanStr(MapGet(sel, opt.dep_groupCanon))) = toLowerCase(cleanStr(opt.dep_value))
    ELSE opt.visible

ShownOptions(options, sel) == SelectSeq(options, LAMBDA o : optionShown(o, sel))

RECURSIVE updateOptionVisibilityFrom(_, _, _, _)
\* one pass over Object.entries(optionsByCanon), each group judged against the selection
\* as the groups before it left it; the result is [sel, changed, widgets], widgets being
\* the option elements left un-hidden in the blocks left on display
updateOptionVisibilityFrom(groups, sel, changed, widgets) ==
    IF groups = <<>> THEN [sel |-> sel, changed |-> changed, widgets |-> widgets]
    ELSE IF Len(Head(groups).options) = 0
    THEN \* renderOptions built no block for a group without options: if (!block) return
         updateOptionVisibilityFrom(Tail(groups), sel, changed, widgets)
    ELSE LET g           == Head(groups).key
             currentVal  == MapGet(sel, g)
             visibleOpts == ShownOptions(Head(groups).options, sel)
             shown       == Append(widgets, [k |-> g, opts |-> OptionNames(visibleOpts)])
         IN  IF Len(visibleOpts) = 0
             THEN IF Truthy(currentVal)
                  THEN updateOptionVisibilityFrom(Tail(groups), MapDelete(sel, g), TRUE, widgets)
                  ELSE updateOptionVisibilityFrom(Tail(groups), sel, changed, widgets)
             ELSE IF SomeNamed(visibleOpts, currentVal)
                  THEN updateOptionVisibilityFrom(Tail(groups), sel, changed, shown)
                  ELSE updateOptionVisibilityFrom(Tail(groups),
                           MapSet(sel, g, defaultName(visibleOpts)), TRUE, shown)

updateOptionVisibility(cat, sel) == updateOptionVisibilityFrom(cat, sel, FALSE, <<>>)

RECURSIVE recalcPriceFrom(_, _, _, _, _)
\* acc is [regular, sale]; the groups are walked in Object.entries(optionsByCanon) order
recalcPriceFrom(acc, p, groups, sel, baseSale) ==
    IF groups = <<>> THEN acc
    ELSE LET chosenName == MapGet(sel, Head(groups).key)
             found == Truthy(chosenName) /\ SomeNamed(Head(groups).options, chosenName)
             opt   == FindNamed(Head(groups).options, chosenName)
             addSale == p.sale_active /\ acc.sale > 0
         IN  IF ~found THEN recalcPriceFrom(acc, p, Tail(groups), sel, baseSale)
             ELSE IF opt.price_type = "percent"
             THEN recalcPriceFrom(
                      [regular |-> acc.regular + PctOf(p.base_price, opt.price_delta),
                       sale    |-> IF addSale THEN acc.sale + PctOf(baseSale, opt.price_delta) ELSE acc.sale],
                      p, Tail(groups), sel, baseSale)
             ELSE recalcPriceFrom(
                      [regular |-> acc.regular + opt.price_delta,
                       sale    |-> IF addSale THEN acc.sale + opt.price_delta ELSE acc.sale],
                      p, Tail(groups), sel, baseSale)

\* [regular, sale]: totalRegular and totalSale
recalcPrice(p, cat, sel) ==
    LET baseSale == IF p.sale_active THEN p.sale_price ELSE 0
    IN  recalcPriceFrom([regular |-> p.base_price, sale |-> baseSale], p, cat, sel, baseSale)

(***************************************************************************)
(* loadData: the product row and the option rows, per page script          *)
(***************************************************************************)
NoProduct == [loaded |-> FALSE, model_id |-> "", base_price |-> 0, sale_price |-> 0, sale_active |-> FALSE]

\* localeCompare on the option names of the model (their alphabetical rank)
NameRank(s) ==
    CASE s = "Brass"  -> 1
      [] s = "Bronze" -> 2
      [] s = "Custom" -> 3
      [] s = "Dots"   -> 4
      [] s = "Plain"  -> 5
      [] s = "Vine"   -> 6
      [] OTHER        -> 7

RECURSIVE InsertBuilder(_, _)
InsertBuilder(sorted, o) ==
    IF sorted = <<>> THEN <<o>>
    ELSE IF \/ Head(sorted).sort < o.sort
            \/ (Head(sorted).sort = o.sort /\ NameRank(Head(sorted).option_name) <= NameRank(o.option_name))
         THEN <<Head(sorted)>> \o InsertBuilder(Tail(sorted), o)
         ELSE <<o>> \o sorted

RECURSIVE sortBuilderOptions(_)
\* arr.sort((a, b) => (a.sort - b.sort) || a.option_name.localeCompare(b.option_name))
sortBuilderOptions(list) ==
    IF list = <<>> THEN <<>>
    ELSE InsertBuilder(sortBuilderOptions(SubSeq(list, 1, Len(list) - 1)), list[Len(list)])

\* productInfo.js (first script): price_type lower-cased as found, absent dependency cells stay null
optionRowInfo(row) ==
    [row EXCEPT !.price_type     = toLowerCase(cleanStr(row.price_type)),
                !.dep_groupCanon = IF Truthy(row.dep_groupCanon) THEN row.dep_groupCanon ELSE NULL,
                !.dep_value      = IF Truthy(row.dep_value) THEN cleanStr(row.dep_value) ELSE NULL]

\* productInfo.js (unified loader) and part_001: price_type || 'add'
optionRowUnified(row) ==
    [row EXCEPT !.price_type     = IF Truthy(row.price_type) THEN row.price_type ELSE "add",
                !.dep_groupCanon = cleanStr(row.dep_groupCanon),
                !.dep_value      = cleanStr(row.dep_value)]

\* part_007, part_004, customBuilder.js: 'percent' or 'flat'
optionRowFlat(row) ==
    [row EXCEPT !.price_type     = IF toLowerCase(IF cleanStr(row.price_type) = "" THEN "flat"
                                                  ELSE cleanStr(row.price_type)) = "percent"
                                   THEN "percent" ELSE "flat",
                !.dep_groupCanon = toLowerCase(cleanStr(row.dep_groupCanon)),
                !.dep_value      = cleanStr(row.dep_value)]

\* rows(optT).forEach(...): optionsByCanon as each loader builds it, groups in row order
loadOptionsInfo(cat) ==
    [i \in 1..Len(cat) |->
        [key |-> cat[i].key, options |-> [j \in 1..Len(cat[i].options) |-> optionRowInfo(cat[i].options[j])]]]

loadOptionsUnified(cat) ==
    [i \in 1..Len(cat) |->
        [key |-> cat[i].key, options |-> [j \in 1..Len(cat[i].options) |-> optionRowUnified(cat[i].options[j])]]]

loadOptionsFlat(cat) ==
    [i \in 1..Len(cat) |->
        [key |-> cat[i].key, options |-> [j \in 1..Len(cat[i].options) |-> optionRowFlat(cat[i].options[j])]]]

\* sale_active cell is true / "true" / 1 (all modelled as the cell "true") and sale_price > 0
saleActive(row) == row.sale_active = "true" /\ row.sale > 0

(***************************************************************************)
(* Sheet cells as the gviz answer delivers them, and their coercions       *)
(***************************************************************************)
\* a gviz cell value: null, a boolean, a number or a string
CNull == [t |-> "null", s |-> "", n |-> 0]

CBool(b) == [t |-> "bool", s |-> IF b THEN "true" ELSE "false", n |-> 0]

CNum(n) == [t |-> "num", s |-> "", n |-> n]

CStr(s) == [t |-> "str", s |-> s, n |-> 0]

\* a JavaScript number: an integer or NaN
Num(n) == [nan |-> FALSE, n |-> n]

NaN == [nan |-> TRUE, n |-> 0]

\* String(v) on the cells of the model
jsString(c) ==
    CASE c.t = "null" -> "null"
      [] c.t = "bool" -> c.s
      [] c.t = "num"  -> (CASE c.n = 0 -> "0" [] c.n = 1 -> "1" [] c.n = 75 -> "75" [] OTHER -> "number")
      [] OTHER        -> c.s

\* truthiness of a cell, as || and ! see it
jsTruthy(c) ==
    CASE c.t = "null" -> FALSE
      [] c.t = "bool" -> c.s = "true"
      [] c.t = "num"  -> c.n # 0
      [] OTHER        -> c.s # ""

\* Number(v) and unary plus on the cells of the model
jsNumber(c) ==
    CASE c.t = "null" -> Num(0)
      [] c.t = "bool" -> Num(IF c.s = "true" THEN 1 ELSE 0)
      [] c.t = "num"  -> Num(c.n)
      [] OTHER        -> (CASE c.s = ""    -> Num(0)
                            [] c.s = "0"   -> Num(0)
                            [] c.s = "1"   -> Num(1)
                            [] c.s = "75"  -> Num(75)
                            [] OTHER       -> NaN)

\* Number(v || 0)
numberOrZero(c) == IF jsTruthy(c) THEN jsNumber(c) ELSE Num(0)

\* +v || 0
plusOrZero(c) == IF jsNumber(c).nan \/ jsNumber(c).n = 0 THEN Num(0) ELSE jsNumber(c)

\* productInfo.js 182-184: String(v).toLowerCase() === 'true' || v === true
boolByString(c) == toLowerCase(jsString(c)) = "true" \/ c = CBool(TRUE)

\* part_007 174-185: v === true, or a string 'true' in any case, or the number 1
boolByType(c) ==
    \/ c = CBool(TRUE)
    \/ (c.t = "str" /\ toLowerCase(c.s) = "true")
    \/ (c.t = "num" /\ c.n = 1)

\* unified loader and part_001: String(visible).toLowerCase() !== 'false'
visibleUnlessFalse(c) == toLowerCase(jsString(c)) # "false"

\* unified loader and part_001: String(is_default).toLowerCase() === 'true'
defaultByString(c) == toLowerCase(jsString(c)) = "true"

\* a faulty visibility test: every cell but 'false' counts as visible
productVisibleUnlessFalse(row) == visibleUnlessFalse(row.visible)

\* part_004 188-194: pVisible == null, or true, or 'true' in any case, or the number 1
productVisible(row) == row.visible = CNull \/ boolByType(row.visible)

InitFailed(d, sel) ==
    [pc |-> "failed", product |-> NoProduct, optionsByCanon |-> <<>>, selected |-> sel,
     total |-> 0, saleTotal |-> 0, rendered |-> <<>>, dom |-> d]

(***************************************************************************)
(* The page initialisers: loadData, render*, and their catch blocks        *)
(***************************************************************************)
\* productInfo.js, first script: lines 133-239 (loadData), 272-369 (renderOptions), 396-408
initProductInfo(sh, d, sel) ==
    IF ~sh.ok \/ ~sh.hasRow
    THEN InitFailed([d EXCEPT !.price = "unavailable"], sel)
    ELSE LET cat == loadOptionsInfo(sh.options)
             s1  == providerDefaults(providers(cat), sel)
             s2  == drawSettle(cat, s1)
         IN  [pc |-> "ready",
              product |-> [loaded |-> TRUE, model_id |-> sh.row.key, base_price |-> sh.row.base,
                           sale_price |-> 0, sale_active |-> FALSE],
              optionsByCanon |-> cat, selected |-> s2,
              total |-> drawTotal(sh.row.base, cat, s1), saleTotal |-> 0,
              rendered |-> drawWidgets(cat, s2),
              dom |-> [title |-> "product", price |-> "total", options |-> "widgets", inputs |-> {}, nameText |-> "", sentText |-> ""]]

\* productInfo.js, unified loader: lines 575-666, 688-774, 800-811; a missing row is  || []
initUnified(sh, d, sel) ==
    IF ~sh.ok
    THEN InitFailed([d EXCEPT !.price = "unavailable"], sel)
    ELSE LET cat  == loadOptionsUnified(sh.options)
             base == IF sh.hasRow THEN sh.row.base ELSE 0
             s1   == providerDefaults(providers(cat), sel)
             s2   == drawSettle(cat, s1)
         IN  [pc |-> "ready",
              product |-> [loaded |-> TRUE, model_id |-> IF sh.hasRow THEN sh.row.key ELSE "",
                           base_price |-> base, sale_price |-> 0, sale_active |-> FALSE],
              optionsByCanon |-> cat, selected |-> s2,
              total |-> drawTotal(base, cat, s1), saleTotal |-> 0,
              rendered |-> drawWidgets(cat, s2),
              dom |-> [title |-> IF sh.hasRow THEN "product" ELSE "empty",
                       price |-> "total", options |-> "widgets", inputs |-> {}, nameText |-> "", sentText |-> ""]]

\* the state a page of the updateOptionVisibility family is in once its initialiser is through
VisibilityReady(row, cat, sel, widgets) ==
    LET p == [loaded |-> TRUE, model_id |-> row.key, base_price |-> row.base,
              sale_price |-> row.sale, sale_active |-> saleActive(row)]
        t == recalcPrice(p, cat, sel)
    IN  [pc |-> "ready", product |-> p, optionsByCanon |-> cat, selected |-> sel,
         total |-> t.regular, saleTotal |-> t.sale,
         rendered |-> widgets,
         dom |-> [title |-> "product", price |-> "total", options |-> "widgets", inputs |-> {}, nameText |-> "", sentText |-> ""]]

\* part_007: lines 102-225, 249-343, 697-713; loadData resets selected to {}
initPart007(sh, d, sel) ==
    IF ~sh.ok \/ ~sh.hasRow
    THEN InitFailed([d EXCEPT !.title = "unavailable", !.price = "empty"], sel)
    ELSE LET cat == loadOptionsFlat(sh.options)
             s0  == initialSelection(cat, <<>>)
             r1  == updateOptionVisibility(cat, s0)
             r2  == updateOptionVisibility(cat, r1.sel)
         IN  VisibilityReady(sh.row, cat, r2.sel, r2.widgets)

\* part_004: lines 156-311, 357-479, 975-1001; an invisible product is refused
initPart004(sh, d, sel) ==
    IF ~sh.ok \/ ~sh.hasRow \/ ~productVisible(sh.row)
    THEN InitFailed([title |-> "unavailable", price |-> "empty", options |-> "message", inputs |-> {}, nameText |-> "", sentText |-> ""], sel)
    ELSE LET cat == loadOptionsFlat(sh.options)
             s0  == initialSelection(cat, <<>>)
             r1  == updateOptionVisibility(cat, s0)
             r2  == updateOptionVisibility(cat, r1.sel)
         IN  VisibilityReady(sh.row, cat, r2.sel, r2.widgets)

\* the ui_type cell: in the model's sheets Custom is the free-text option of Engraving
uiType(o) == IF o.option_name = "Custom" THEN "text" ELSE "select"

\* buildOptionBlock 286: opts.find(o => o.ui_type === 'text')
hasTextOpt(opts) == \E i \in 1..Len(opts) : uiType(opts[i]) = "text"

textOpt(opts) ==
    opts[CHOOSE i \in 1..Len(opts) :
            /\ uiType(opts[i]) = "text"
            /\ \A j \in 1..(i-1) : uiType(opts[j]) # "text"]

\* buildOptionBlock 272-273, 291-299: the input is created hidden and shown at once when
\* select.value, the defaultName just set, is the free-text option; the
\* updateOptionVisibility pass that follows the blocks sets select.value without a
\* change event, so the display stays as built
builtInputs(cat) ==
    { cat[i].key : i \in { j \in 1..Len(cat) :
                             /\ Len(cat[j].options) > 0
                             /\ hasTextOpt(cat[j].options)
                             /\ defaultName(cat[j].options) = textOpt(cat[j].options).option_name } }

\* the two change listeners of a select, in the order they were added (276-281, 299):
\* the handler proper, then updateVisibility on select.value, which is the picked value
\* unless the pass re-defaulted this very group
changedInputs(cat, inputs, after, g, value) ==
    LET opts        == OptionsOf(cat, g)
        selectValue == IF MapHas(after, g) THEN MapGet(after, g) ELSE value
    IN  IF ~hasTextOpt(opts) THEN inputs
        ELSE IF selectValue = textOpt(opts).option_name THEN inputs \cup {g}
        ELSE inputs \ {g}

\* customBuilder.js: lines 60-206, 330-382, 537-551; the meta row is  || []  and one
\* updateOptionVisibility pass follows the blocks
initCustomBuilder(sh, d, sel) ==
    IF ~sh.ok
    THEN InitFailed([d EXCEPT !.title = "unavailable", !.price = "empty"], sel)
    ELSE LET flat == loadOptionsFlat(sh.options)
             cat  == [i \in 1..Len(flat) |->
                         [key |-> flat[i].key, options |-> sortBuilderOptions(flat[i].options)]]
             row  == IF sh.hasRow THEN sh.row
                     ELSE [key |-> "CUSTOM", base |-> 0, sale |-> 0, sale_active |-> "blank", visible |-> CNull]
             s0   == buildOptionBlocks(cat, <<>>)
             r1   == updateOptionVisibility(cat, s0)
             rdy  == VisibilityReady([row EXCEPT !.key = "CUSTOM"], cat, r1.sel, r1.widgets)
         IN  [rdy EXCEPT !.dom.inputs = builtInputs(cat)]

\* optionsByCanon as the loader of the page script in use builds it
loadedCatalog(pg, sh) ==
    CASE pg = "productInfo"               -> loadOptionsInfo(sh.options)
      [] pg = "unified"                   -> loadOptionsUnified(sh.options)
      [] pg \in {"part_007", "part_004"} -> loadOptionsFlat(sh.options)
      [] pg = "customBuilder"             ->
            [i \in 1..Len(sh.options) |->
                [key |-> loadOptionsFlat(sh.options)[i].key,
                 options |-> sortBuilderOptions(loadOptionsFlat(sh.options)[i].options)]]

initPage(pg, sh, d, sel) ==
    CASE pg = "productInfo"   -> initProductInfo(sh, d, sel)
      [] pg = "unified"       -> initUnified(sh, d, sel)
      [] pg = "part_007"      -> initPart007(sh, d, sel)
      [] pg = "part_004"      -> initPart004(sh, d, sel)
      [] pg = "customBuilder" -> initCustomBuilder(sh, d, sel)

DrawPages == {"productInfo", "unified"}

(***************************************************************************)
(* The change handlers                                                     *)
(***************************************************************************)
\* productInfo.js: sel.addEventListener('change', ...) followed by draw()
changeInfo(p, cat, sel, g, value) ==
    LET s1 == selectChange(cat, sel, g, value)
        s2 == drawSettle(cat, s1)
    IN  [selected |-> s2, total |-> drawTotal(p.base_price, cat, s1), saleTotal |-> 0,
         rendered |-> drawWidgets(cat, s2)]

\* the totals on display when the part_007 handler returns: recalcPrice() ran on the new
\* value first, and again inside updateOptionVisibility() if that changed a selection
visibilityTotals(p, cat, s1, r) ==
    IF r.changed THEN recalcPrice(p, cat, r.sel) ELSE recalcPrice(p, cat, s1)

\* part_007 / part_004: select.addEventListener('change', ...)
changeVisibility(p, cat, sel, g, value) ==
    LET s1 == MapSet(sel, g, value)
        r  == updateOptionVisibility(cat, s1)
        t  == visibilityTotals(p, cat, s1, r)
    IN  [selected |-> r.sel, total |-> t.regular, saleTotal |-> t.sale,
         rendered |-> r.widgets]

\* customBuilder.js: updateOptionVisibility(), then recalcPrice()
changeBuilder(p, cat, sel, g, value) ==
    LET s1 == MapSet(sel, g, value)
        r  == updateOptionVisibility(cat, s1)
        t  == recalcPrice(p, cat, r.sel)
    IN  [selected |-> r.sel, total |-> t.regular, saleTotal |-> t.sale,
         rendered |-> r.widgets]

changePage(pg, p, cat, sel, g, value) ==
    CASE pg \in DrawPages              -> changeInfo(p, cat, sel, g, value)
      [] pg \in {"part_007", "part_004"} -> changeVisibility(p, cat, sel, g, value)
      [] pg = "customBuilder"          -> changeBuilder(p, cat, sel, g, value)

(***************************************************************************)
(* The sheets the model is run on                                          *)
(***************************************************************************)
Opt(name, ptype, delta, def, srt, vis, depG, depV) ==
    [option_name |-> name, price_type |-> ptype, price_delta |-> delta, is_default |-> def,
     sort |-> srt, visible |-> vis, dep_groupCanon |-> depG, dep_value |-> depV]

\* a provider: Brass (sort 1) and Bronze (sort s2), d names the default (0: none)
ToneRing(d, v1, v2, s2) ==
    [key |-> "tone ring",
     options |-> << Opt("Brass",  "add", 0,   d = 1, 1,  v1, NULL, NULL),
                    Opt("Bronze", "add", 200, d = 2, s2, v2, NULL, NULL) >>]

\* a dependent: Custom needs tone ring = depV; second adds Plain without a dependency
\* ("free") or needing tone ring = Brass ("brass")
Engraving(depV, vc, second) ==
    [key |-> "engraving",
     options |-> << Opt("Custom", "add", 75, FALSE, 1, vc, "tone ring", depV) >> \o
                 (CASE second = "none"  -> <<>>
                    [] second = "free"  -> << Opt("Plain", "add", 0, FALSE, 2, TRUE, NULL, NULL) >>
                    [] second = "brass" -> << Opt("Plain", "add", 0, FALSE, 0, TRUE, "tone ring", "Brass") >>)]

\* a third group: a provider priced in percent, a group hanging off engraving (two hops,
\* with two options or with one), or one with a dependent and a free option
Inlay(kind) ==
    [key |-> "inlay",
     options |-> CASE kind = "provider" -> << Opt("Dots", "pct", 10, FALSE, 1, TRUE, NULL, NULL),
                                              Opt("Vine", "percent", 5, TRUE, 2, TRUE, NULL, NULL) >>
                   [] kind = "twohop"   -> << Opt("Vine", "add", 50, FALSE, 1, TRUE, "engraving", "Custom"),
                                              Opt("Dots", "add", 10, FALSE, 2, TRUE, "engraving", "Plain") >>
                   [] kind = "chain"    -> << Opt("Vine", "add", 50, FALSE, 1, TRUE, "engraving", "Custom") >>
                   [] kind = "mixed"    -> << Opt("Vine", "pct", 5, FALSE, 1, TRUE, "engraving", "custom"),
                                              Opt("Dots", NULL, 10, FALSE, 2, TRUE, NULL, NULL) >>]

\* the group part_004 gives a text field: Standard, and Custom Name at 25 more
NameBlock ==
    [key |-> "name block",
     options |-> << Opt("Standard",    "add", 0,  TRUE,  1, TRUE, NULL, NULL),
                    Opt("Custom Name", "add", 25, FALSE, 2, TRUE, NULL, NULL) >>]

Reverse(seq) == [i \in 1..Len(seq) |-> seq[Len(seq) + 1 - i]]

Catalogs ==
    { IF rev THEN Reverse(c) ELSE c :
        rev \in BOOLEAN,
        c \in { <<ToneRing(d, v1, v2, s2), Engraving(depV, vc, second)>> \o
                (IF kind = "none" THEN <<>> ELSE <<Inlay(kind)>>) :
                  d \in 0..2, v1 \in BOOLEAN, v2 \in BOOLEAN, s2 \in {0, 2},
                  depV \in {"Bronze", "BRONZE"}, vc \in BOOLEAN,
                  second \in {"none", "free", "brass"},
                  kind \in {"none", "provider", "twohop", "chain", "mixed"} } }

ProductRow(base, sale, active, visible) ==
    [key |-> "LB-3", base |-> base, sale |-> sale, sale_active |-> active, visible |-> visible]

StaticDom == [title |-> "static", price |-> "static", options |-> "static", inputs |-> {}, nameText |-> "", sentText |-> ""]

NoFn == [op |-> "none"]

NoEvent == [kind |-> "none", k |-> NULL, v |-> NULL, before |-> <<>>]

EnginePages == {"productInfo", "part_007", "customBuilder"}

Init ==
    /\ page \in EnginePages
    /\ pc = "loading"
    /\ sheet \in { [ok |-> TRUE, hasRow |-> TRUE, row |-> ProductRow(1000, 800, "true", CNull),
                    options |-> c] : c \in Catalogs }
    /\ product = NoProduct
    /\ optionsByCanon = <<>>
    /\ selected = <<>>
    /\ total = 0
    /\ saleTotal = 0
    /\ rendered = <<>>
    /\ dom = StaticDom
    /\ fn = NoFn
    /\ event = NoEvent

(***************************************************************************)
(* Actions                                                                 *)
(***************************************************************************)
\* DOMContentLoaded: the initialiser runs to its end (rendered page or catch block)
Load ==
    /\ pc = "loading"
    /\ LET r == initPage(page, sheet, dom, selected)
       IN  /\ pc' = r.pc
           /\ product' = r.product
           /\ optionsByCanon' = r.optionsByCanon
           /\ selected' = r.selected
           /\ total' = r.total
           /\ saleTotal' = r.saleTotal
           /\ rendered' = r.rendered
           /\ dom' = r.dom
    /\ event' = [kind |-> "load", k |-> NULL, v |-> NULL, before |-> selected]
    /\ UNCHANGED <<page, sheet, fn>>

\* part_004 setupNameBlockUI 885-892: the Name Block group has options and its chosen
\* name starts with 'custom'
isCustom(cat, sel) ==
    /\ Len(OptionsOf(cat, "name block")) > 0
    /\ MapHas(sel, "name block")
    /\ Truthy(MapGet(sel, "name block"))
    /\ startsWithCustom(toLowerCase(MapGet(sel, "name block")))

\* part_004 setupNameBlockUI 871-903: input.value once it has run: kept while the input
\* is enabled, emptied otherwise
setupNameBlockUI(cat, sel, text) == IF isCustom(cat, sel) THEN text ELSE ""

\* the text fields of part_004 once a change handler is through (436-441):
\* updateEmailConfig read the input last at 439, or at 572 inside updateOptionVisibility,
\* in both cases before setupNameBlockUI emptied it, and it appended the text only to a
\* Name Block choice that starts with 'custom'
changedNameText(cat, d, after) ==
    [d EXCEPT !.sentText = setupNameBlockUI(cat, after, d.nameText),
              !.nameText = setupNameBlockUI(cat, after, d.nameText)]

\* what the widget shows as chosen: on the pages of productInfo.js the value of the
\* <select>, on the later scripts the entry of the selection
shownValue(pg, w, sel) ==
    IF pg \in DrawPages THEN selValue(w.opts, MapGet(sel, w.k)) ELSE MapGet(sel, w.k)

\* the user picks another option than the one shown in one of the widgets on display
Change ==
    /\ pc = "ready"
    /\ \E i \in 1..Len(rendered) :
         \E j \in 1..Len(rendered[i].opts) :
            /\ rendered[i].opts[j] # shownValue(page, rendered[i], selected)
            /\ LET r == changePage(page, product, optionsByCanon, selected,
                                   rendered[i].k, rendered[i].opts[j])
               IN  /\ selected' = r.selected
                   /\ total' = r.total
                   /\ saleTotal' = r.saleTotal
                   /\ rendered' = r.rendered
                   /\ dom' = IF page = "customBuilder"
                             THEN [dom EXCEPT !.inputs = changedInputs(optionsByCanon, dom.inputs, r.selected,
                                                                       rendered[i].k, rendered[i].opts[j])]
                             ELSE IF page = "part_004"
                             THEN changedNameText(optionsByCanon, dom, r.selected)
                             ELSE dom
                   /\ event' = [kind |-> "change", k |-> rendered[i].k,
                                v |-> rendered[i].opts[j], before |-> selected]
    /\ UNCHANGED <<page, pc, sheet, product, optionsByCanon, fn>>

Next == Load \/ Change

Spec == Init /\ [][Next]_vars

(***************************************************************************)
(* Initialisation on every page script, with failing loads (SpecInit)      *)
(***************************************************************************)
AllPages == {"productInfo", "unified", "part_007", "part_004", "customBuilder"}

\* the catalog of the spec's worked example: Tone Ring {Brass (default), Bronze +200},
\* Engraving {Custom +75, needs Tone Ring = Bronze}
ScenarioCatalog == <<ToneRing(1, TRUE, TRUE, 2), Engraving("Bronze", TRUE, "none")>>

\* a sheet whose Bronze takes the whole base price of 1000 off
ClearanceCatalog ==
    << [key |-> "tone ring",
        options |-> << Opt("Brass",  "add", 0,     TRUE,  1, TRUE, NULL, NULL),
                       Opt("Bronze", "add", -1000, FALSE, 2, TRUE, NULL, NULL) >>] >>

InitCatalogs ==
    { ScenarioCatalog, Reverse(ScenarioCatalog), ScenarioCatalog \o <<Inlay("provider")>>,
      <<ToneRing(0, TRUE, TRUE, 0), Engraving("BRONZE", TRUE, "free")>>, ClearanceCatalog,
      <<ToneRing(1, TRUE, TRUE, 2), Engraving("Bronze", TRUE, "free")>>,
      <<ToneRing(2, TRUE, TRUE, 2), Engraving("Bronze", TRUE, "brass")>>,
      <<ToneRing(1, TRUE, TRUE, 2), NameBlock>> }

\* the visible cell of the Products row: blank, true in its three forms, and other values
VisibleCells ==
    { CNull, CBool(TRUE), CBool(FALSE), CStr("TRUE"), CStr("false"), CStr("yes"), CStr(""),
      CNum(1), CNum(0) }

\* ok: the queries were answered; hasRow: the Products answer holds a row for the key
InitPages ==
    /\ page \in AllPages
    /\ pc = "loading"
    /\ sheet \in { [ok |-> ok, hasRow |-> hasRow, row |-> ProductRow(1000, 800, "true", v),
                    options |-> c] :
                     ok \in BOOLEAN, hasRow \in BOOLEAN, v \in VisibleCells, c \in InitCatalogs }
    /\ product = NoProduct
    /\ optionsByCanon = <<>>
    /\ selected = <<>>
    /\ total = 0
    /\ saleTotal = 0
    /\ rendered = <<>>
    /\ dom = StaticDom
    /\ fn = NoFn
    /\ event = NoEvent

SpecInit == InitPages /\ [][Next]_vars

(***************************************************************************)
(* The pure functions applied to drawn inputs (SpecPure)                   *)
(***************************************************************************)
\* a selection over the two groups of the pricing catalogs; NULL leaves a group out
SelOf(tr, inl) ==
    (IF tr = NULL THEN <<>> ELSE << [k |-> "tone ring", v |-> tr] >>) \o
    (IF inl = NULL THEN <<>> ELSE << [k |-> "inlay", v |-> inl] >>)

\* an entry for a group the pricing catalogs do not have
StaleEntry == << [k |-> "binding", v |-> "Ivoroid"] >>

\* Nickel is no option of tone ring and BRONZE differs from Bronze in case only
PureSelections ==
    { pre \o SelOf(tr, inl) :
        pre \in {<<>>, StaleEntry}, tr \in {NULL, "Bronze", "Nickel", "BRONZE"}, inl \in {NULL, "Vine"} }

PriceCatalog(t1, d1, t2, d2) ==
    << [key |-> "tone ring",
        options |-> << Opt("Brass", "add", 0, TRUE, 1, TRUE, NULL, NULL),
                       Opt("Bronze", t1, d1, FALSE, 2, TRUE, NULL, NULL) >>],
       [key |-> "inlay",
        options |-> << Opt("Vine", t2, d2, FALSE, 1, TRUE, NULL, NULL) >>] >>

\* price types as calcPrice meets them ("flat" is none of its three)
CalcTypes == {"add", "pct", "abs", "flat"}

CalcDeltas == {-50, 5, 10, 150}

CalcBases == {1000, 2000}

\* price types as recalcPrice meets them
RecalcTypes == {"flat", "percent"}

RecalcDeltas == {-100, -50, 50}

SalePrices == {100, 800}

ProviderCatalogs ==
    { <<ToneRing(d, v1, v2, s2)>> \o tail :
        d \in 0..2, v1 \in BOOLEAN, v2 \in BOOLEAN, s2 \in {0, 2},
        tail \in { <<>>, <<Inlay("provider")>>, <<Engraving("Bronze", TRUE, "none")>> } }

PureInputs ==
    { [op |-> "calcPrice", done |-> FALSE, base |-> b, sale |-> 0, active |-> FALSE,
       cat |-> PriceCatalog(t1, d1, t2, d2), sel |-> sel, out |-> 0] :
         b \in CalcBases, t1 \in CalcTypes, d1 \in CalcDeltas, t2 \in CalcTypes, d2 \in CalcDeltas,
         sel \in PureSelections }
    \cup
    { [op |-> "recalcPrice", done |-> FALSE, base |-> 1000, sale |-> sp, active |-> a,
       cat |-> PriceCatalog(t1, d1, t2, d2), sel |-> sel, out |-> [regular |-> 0, sale |-> 0]] :
         sp \in SalePrices, a \in BOOLEAN, t1 \in RecalcTypes, d1 \in RecalcDeltas,
         t2 \in RecalcTypes, d2 \in RecalcDeltas, sel \in PureSelections }
    \cup
    { [op |-> "providerDefaults", done |-> FALSE, base |-> 0, sale |-> 0, active |-> FALSE,
       cat |-> c, sel |-> SelOf(tr, inl), out |-> <<>>] :
         c \in ProviderCatalogs, tr \in {NULL, "Brass", "Bronze", "Nickel"}, inl \in {NULL, "Dots"} }

InitPure ==
    /\ page = "none"
    /\ pc = "pure"
    /\ sheet = [ok |-> TRUE, hasRow |-> FALSE, row |-> ProductRow(0, 0, "blank", CNull), options |-> <<>>]
    /\ product = NoProduct
    /\ optionsByCanon = <<>>
    /\ selected = <<>>
    /\ total = 0
    /\ saleTotal = 0
    /\ rendered = <<>>
    /\ dom = StaticDom
    /\ fn \in PureInputs
    /\ event = NoEvent

ApplyCalcPrice ==
    /\ fn.op = "calcPrice" /\ ~fn.done
    /\ fn' = [fn EXCEPT !.done = TRUE, !.out = calcPrice(fn.base, fn.sel, fn.cat)]
    /\ UNCHANGED <<page, pc, sheet, product, optionsByCanon, selected, total, saleTotal, rendered, dom, event>>

\* LemonState.product as loadData leaves it for the drawn sale cells
PureProduct(f) ==
    [loaded |-> TRUE, model_id |-> "LB-3", base_price |-> f.base, sale_price |-> f.sale,
     sale_active |-> f.active /\ f.sale > 0]

ApplyRecalcPrice ==
    /\ fn.op = "recalcPrice" /\ ~fn.done
    /\ fn' = [fn EXCEPT !.done = TRUE, !.out = recalcPrice(PureProduct(fn), fn.cat, fn.sel)]
    /\ UNCHANGED <<page, pc, sheet, product, optionsByCanon, selected, total, saleTotal, rendered, dom, event>>

ApplyProviderDefaults ==
    /\ fn.op = "providerDefaults" /\ ~fn.done
    /\ fn' = [fn EXCEPT !.done = TRUE, !.out = providerDefaults(providers(fn.cat), fn.sel)]
    /\ UNCHANGED <<page, pc, sheet, product, optionsByCanon, selected, total, saleTotal, rendered, dom, event>>

NextPure == ApplyCalcPrice \/ ApplyRecalcPrice \/ ApplyProviderDefaults

SpecPure == InitPure /\ [][NextPure]_vars

(***************************************************************************)
(* calcPrice in the arithmetic of JavaScript numbers (SpecFloat)           *)
(***************************************************************************)
\* A natural number of any size is the sequence of its digits to the base 2^15, least
\* significant first, the last digit not 0 (zero is the empty sequence). A JavaScript
\* number is neg, m, e with value m * 2^e (negated when neg), 2^52 <= m < 2^53, and zero
\* has m empty; the prices of the model stay far from the ends of the exponent range, so
\* there is no overflow and no subnormal.
Limb == 2^15

RECURSIVE limbsOf(_)
limbsOf(n) == IF n = 0 THEN <<>> ELSE <<n % Limb>> \o limbsOf(n \div Limb)

RECURSIVE trimHigh(_)
trimHigh(a) == IF a = <<>> \/ a[Len(a)] # 0 THEN a ELSE trimHigh(SubSeq(a, 1, Len(a) - 1))

RECURSIVE addLimbs(_, _, _)
addLimbs(a, b, carry) ==
    IF a = <<>> /\ b = <<>> THEN (IF carry = 0 THEN <<>> ELSE <<carry>>)
    ELSE LET s == (IF a = <<>> THEN 0 ELSE a[1]) + (IF b = <<>> THEN 0 ELSE b[1]) + carry
         IN  <<s % Limb>> \o
             addLimbs(IF a = <<>> THEN a ELSE Tail(a), IF b = <<>> THEN b ELSE Tail(b), s \div Limb)

RECURSIVE subDigits(_, _, _)
\* the digits of a - b - borrow, for a >= b + borrow
subDigits(a, b, borrow) ==
    IF a = <<>> THEN <<>>
    ELSE LET y == (IF b = <<>> THEN 0 ELSE b[1]) + borrow
         IN  <<(a[1] + Limb - y) % Limb>> \o
             subDigits(Tail(a), IF b = <<>> THEN b ELSE Tail(b), IF a[1] < y THEN 1 ELSE 0)

subLimbs(a, b) == trimHigh(subDigits(a, b, 0))

lessLimbs(a, b) ==
    \/ Len(a) < Len(b)
    \/ /\ Len(a) = Len(b)
       /\ \E i \in 1..Len(a) : a[i] < b[i] /\ \A j \in (i + 1)..Len(a) : a[j] = b[j]

RECURSIVE mulDigit(_, _, _)
\* a * x + carry, x and carry below 2^15
mulDigit(a, x, carry) ==
    IF a = <<>> THEN (IF carry = 0 THEN <<>> ELSE <<carry>>)
    ELSE <<(a[1] * x + carry) % Limb>> \o mulDigit(Tail(a), x, (a[1] * x + carry) \div Limb)

RECURSIVE mulLimbs(_, _)
mulLimbs(a, b) ==
    IF a = <<>> \/ b = <<>> THEN <<>>
    ELSE addLimbs(trimHigh(mulDigit(a, b[1], 0)), <<0>> \o mulLimbs(a, Tail(b)), 0)

RECURSIVE divDigit(_, _)
\* long division by a divisor below 2^15, most significant digit first: the digits of the
\* quotient and the remainder
divDigit(a, d) ==
    IF a = <<>> THEN [q |-> <<>>, r |-> 0]
    ELSE LET high == divDigit(Tail(a), d)
             cur  == high.r * Limb + a[1]
         IN  [q |-> <<cur \div d>> \o high.q, r |-> cur % d]

\* a * 2^k
shiftLeft(a, k) ==
    IF a = <<>> THEN a
    ELSE [i \in 1..(k \div 15) |-> 0] \o trimHigh(mulDigit(a, 2^(k % 15), 0))

\* a \div 2^k
shiftRight(a, k) ==
    IF k \div 15 >= Len(a) THEN <<>>
    ELSE trimHigh(divDigit(SubSeq(a, (k \div 15) + 1, Len(a)), 2^(k % 15)).q)

\* the number of binary digits of a
bitLength(a) ==
    IF a = <<>> THEN 0
    ELSE 15 * (Len(a) - 1) + (CHOOSE n \in 1..15 : 2^(n - 1) <= a[Len(a)] /\ a[Len(a)] < 2^n)

\* the number of value m * 2^e, for m of at most 53 binary digits
number(neg, m, e) ==
    IF m = <<>> THEN [neg |-> FALSE, m |-> <<>>, e |-> 0]
    ELSE [neg |-> neg, m |-> shiftLeft(m, 53 - bitLength(m)), e |-> e - (53 - bitLength(m))]

\* the number nearest to m * 2^e (to a little more, when inexact), a tie going to the
\* neighbour with an even last digit: IEEE 754 round-to-nearest-even to 53 binary digits
rounded(neg, m, e, inexact) ==
    IF bitLength(m) <= 53 THEN number(neg, m, e)
    ELSE LET k    == bitLength(m) - 53
             kept == shiftRight(m, k)
             rest == subLimbs(m, shiftLeft(kept, k))
             half == shiftLeft(<<1>>, k - 1)
             up   == \/ lessLimbs(half, rest)
                     \/ rest = half /\ (inexact \/ kept[1] % 2 = 1)
             next == IF up THEN addLimbs(kept, <<1>>, 0) ELSE kept
         IN  IF bitLength(next) = 54 THEN number(neg, shiftRight(next, 1), e + k + 1)
             ELSE number(neg, next, e + k)

\* the number an integer cell holds
numberOf(n) == number(n < 0, limbsOf(IF n < 0 THEN 0 - n ELSE n), 0)

\* a + b
plus(a, b) ==
    LET e  == IF a.e < b.e THEN a.e ELSE b.e
        am == shiftLeft(a.m, a.e - e)
        bm == shiftLeft(b.m, b.e - e)
    IN  IF a.m = <<>> THEN b
        ELSE IF b.m = <<>> THEN a
        ELSE IF a.neg = b.neg THEN rounded(a.neg, addLimbs(am, bm, 0), e, FALSE)
        ELSE IF lessLimbs(am, bm) THEN rounded(b.neg, subLimbs(bm, am), e, FALSE)
        ELSE rounded(a.neg, subLimbs(am, bm), e, FALSE)

\* a * b
times(a, b) == rounded(a.neg # b.neg, mulLimbs(a.m, b.m), a.e + b.e, FALSE)

\* a / b, for a divisor that is a whole number below 2^15
dividedBy(a, b) ==
    LET d == divDigit(shiftLeft(a.m, 30), shiftRight(b.m, 0 - b.e)[1])
    IN  rounded(a.neg # b.neg, trimHigh(d.q), a.e - 30, d.r # 0)

\* a number without a fractional part
Whole(a) == a.m = <<>> \/ a.e >= 0 \/ shiftLeft(shiftRight(a.m, 0 - a.e), 0 - a.e) = a.m

\* what calcPrice adds to the total for one option (85-91)
amount(base, item) ==
    IF item.price_type = "add" THEN numberOf(item.price_delta)
    ELSE IF item.price_type = "pct"
    THEN times(numberOf(base), dividedBy(numberOf(item.price_delta), numberOf(100)))
    ELSE IF item.price_type = "abs" THEN numberOf(item.price_delta)
    ELSE numberOf(0)

RECURSIVE calcPriceFloatCompounding(_, _, _, _)
\* a faulty calcPrice: a percentage is taken of the running total
calcPriceFloatCompounding(acc, base, sel, cat) ==
    IF sel = <<>> THEN acc
    ELSE LET list == OptionsOf(cat, Head(sel).k)
             item == FindNamed(list, Head(sel).v)
             step == IF ~SomeNamed(list, Head(sel).v) THEN numberOf(0)
                     ELSE IF item.price_type = "pct"
                     THEN times(acc, dividedBy(numberOf(item.price_delta), numberOf(100)))
                     ELSE amount(base, item)
         IN  calcPriceFloatCompounding(plus(acc, step), base, Tail(sel), cat)

RECURSIVE calcPriceFloatFrom(_, _, _, _)
\* the loop of calcPrice (80-92) on numbers, acc being the running total
calcPriceFloatFrom(acc, base, sel, cat) ==
    IF sel = <<>> THEN acc
    ELSE LET list == OptionsOf(cat, Head(sel).k)
             item == FindNamed(list, Head(sel).v)
         IN  calcPriceFloatFrom(IF SomeNamed(list, Head(sel).v) THEN plus(acc, amount(base, item))
                                ELSE acc,
                                base, Tail(sel), cat)

\* calcPrice (78-94) on numbers
calcPriceFloat(base, sel, cat) == calcPriceFloatFrom(numberOf(base), base, sel, cat)

FloatBases == {3, 1000, 2000}

FloatDeltas == {-50, 5, 10, 20, 150}

\* the selections priced in both insertion orders: both groups or one group, alone or
\* after a stale entry
FloatSelections ==
    { pre \o SelOf(tr, inl) : pre \in {<<>>, StaleEntry}, tr \in {NULL, "Bronze"}, inl \in {"Vine"} }

FloatInputs ==
    { [op |-> "calcPriceFloat", done |-> FALSE, base |-> b, cat |-> PriceCatalog(t1, d1, t2, d2),
       sel |-> sel, out |-> numberOf(0), swapped |-> numberOf(0)] :
         b \in FloatBases, t1 \in CalcTypes, d1 \in FloatDeltas, t2 \in CalcTypes, d2 \in FloatDeltas,
         sel \in FloatSelections }

InitFloat ==
    /\ page = "none"
    /\ pc = "pure"
    /\ sheet = [ok |-> TRUE, hasRow |-> FALSE, row |-> ProductRow(0, 0, "blank", CNull), options |-> <<>>]
    /\ product = NoProduct
    /\ optionsByCanon = <<>>
    /\ selected = <<>>
    /\ total = 0
    /\ saleTotal = 0
    /\ rendered = <<>>
    /\ dom = StaticDom
    /\ fn \in FloatInputs
    /\ event = NoEvent

\* calcPrice on the selection and on the same entries inserted in the opposite order
ApplyCalcPriceFloat ==
    /\ fn.op = "calcPriceFloat" /\ ~fn.done
    /\ fn' = [fn EXCEPT !.done = TRUE,
                        !.out = calcPriceFloat(fn.base, fn.sel, fn.cat),
                        !.swapped = calcPriceFloat(fn.base, Reverse(fn.sel), fn.cat)]
    /\ UNCHANGED <<page, pc, sheet, product, optionsByCanon, selected, total, saleTotal, rendered, dom, event>>

NextFloat == ApplyCalcPriceFloat

SpecFloat == InitFloat /\ [][NextFloat]_vars

(***************************************************************************)
(* The selections handed to the e-mail form (SpecConfig)                   *)
(***************************************************************************)
\* groupOrig: the group name as the sheet spells it, for the canonical keys of the model
GroupOrig(key) ==
    CASE key = "tone ring" -> "Tone Ring"
      [] key = "engraving" -> "Engraving"
      [] key = "inlay"     -> "Inlay"
      [] key = "name block" -> "Name Block"
      [] OTHER             -> ""

\* groupNameMap: canonical key -> first groupOrig seen
groupNameMap(cat) == [i \in 1..Len(cat) |-> [k |-> cat[i].key, v |-> GroupOrig(cat[i].key)]]

\* (groupNameMap && groupNameMap[canonKey]) || canonKey
displayGroup(names, canonKey) ==
    IF Truthy(MapGet(names, canonKey)) THEN MapGet(names, canonKey) ELSE canonKey

RECURSIVE selectionsByCanonKey(_, _, _)
\* a faulty getConfig: the selections are keyed by the canonical key
selectionsByCanonKey(acc, sel, names) ==
    IF sel = <<>> THEN acc
    ELSE selectionsByCanonKey(MapSet(acc, Head(sel).k, Head(sel).v), Tail(sel), names)

RECURSIVE getConfigSelections(_, _, _)
\* productInfo.js getConfig: selected.forEach((val, canonKey) => selections[displayGroup] = val)
getConfigSelections(acc, sel, names) ==
    IF sel = <<>> THEN acc
    ELSE getConfigSelections(MapSet(acc, displayGroup(names, Head(sel).k), Head(sel).v),
                             Tail(sel), names)

RECURSIVE emailSelections(_, _, _)
\* part_007 updateEmailConfig 666-674: entries with an empty value are skipped
emailSelections(acc, sel, names) ==
    IF sel = <<>> THEN acc
    ELSE IF ~Truthy(Head(sel).v) THEN emailSelections(acc, Tail(sel), names)
    ELSE emailSelections(MapSet(acc, displayGroup(names, Head(sel).k), Head(sel).v),
                         Tail(sel), names)

\* `${groupCanon}__text` for the one group of the model that has a free-text option
TextKey(g) == IF g = "engraving" THEN "engraving__text" ELSE NULL

IsTextKey(key) == key = "engraving__text"

\* canonKey.replace('__text', '')
BaseKey(key) == IF key = "engraving__text" THEN "engraving" ELSE key

\* `${label} (Custom Text)`
CustomTextLabel(label) ==
    CASE label = "Engraving" -> "Engraving (Custom Text)"
      [] label = "engraving" -> "engraving (Custom Text)"
      [] OTHER               -> label

RECURSIVE builderSelections(_, _, _)
\* customBuilder.js updateEmailConfig: as above, a __text entry goes under the label of
\* its group followed by " (Custom Text)"
builderSelections(acc, sel, names) ==
    IF sel = <<>> THEN acc
    ELSE IF ~Truthy(Head(sel).v) THEN builderSelections(acc, Tail(sel), names)
    ELSE IF IsTextKey(Head(sel).k)
    THEN builderSelections(
             MapSet(acc, CustomTextLabel(displayGroup(names, BaseKey(Head(sel).k))), Head(sel).v),
             Tail(sel), names)
    ELSE builderSelections(MapSet(acc, displayGroup(names, Head(sel).k), Head(sel).v),
                           Tail(sel), names)

\* a faulty price display: the sale price is shown whenever the sale is active
priceShownWhenActive(p, totals) ==
    IF p.sale_active
    THEN [original |-> totals.regular, sale |-> totals.sale, struck |-> TRUE]
    ELSE [original |-> totals.regular, sale |-> 0, struck |-> FALSE]

\* recalcPrice 482-491: what #productPrice shows: the regular total struck through next
\* to the sale total, or the regular total alone
priceShown(p, totals) ==
    IF p.sale_active /\ totals.sale > 0
    THEN [original |-> totals.regular, sale |-> totals.sale, struck |-> TRUE]
    ELSE [original |-> totals.regular, sale |-> 0, struck |-> FALSE]

\* getConfig 415-416: Number(LemonState.total || base_price)
getConfigFinalPrice(p, t) == IF t # 0 THEN t ELSE p.base_price

\* updateEmailConfig of part_007, part_004 and customBuilder.js: the last number in the
\* text of #productPrice (digits, commas and dots only, so a sign is lost)
emailFinalPrice(p, t, st) ==
    LET shown == priceShown(p, [regular |-> t, sale |-> st])
        last  == IF shown.struck THEN shown.sale ELSE shown.original
    IN  IF last < 0 THEN 0 - last ELSE last

configFinalPrice(pg, p, t, st) ==
    IF pg \in DrawPages THEN getConfigFinalPrice(p, t) ELSE emailFinalPrice(p, t, st)

\* part_004 940-946: the chosen name with the cleaned text of the input in quotes behind
\* it, or with a note that none was entered
withCustomText(val, text) ==
    IF Truthy(cleanStr(text)) THEN val \o " (\"" \o cleanStr(text) \o "\")"
    ELSE val \o " (no text entered)"

RECURSIVE part004Selections(_, _, _, _)
\* part_004 updateEmailConfig 929-950: as part_007, and the value of the group displayed
\* as Name Block carries the text of #nameBlockCustomInput when the chosen name starts
\* with 'custom'
part004Selections(acc, sel, names, text) ==
    IF sel = <<>> THEN acc
    ELSE IF ~Truthy(Head(sel).v) THEN part004Selections(acc, Tail(sel), names, text)
    ELSE LET group == displayGroup(names, Head(sel).k)
             val   == IF toLowerCase(group) = "name block" /\ startsWithCustom(toLowerCase(Head(sel).v))
                      THEN withCustomText(Head(sel).v, text)
                      ELSE Head(sel).v
         IN  part004Selections(MapSet(acc, group, val), Tail(sel), names, text)

\* the selections object of getConfig (productInfo.js) and of updateEmailConfig (part_007,
\* part_004, customBuilder.js); text is what the input of part_004 held when it was read
configSelections(pg, sel, names, text) ==
    CASE pg \in DrawPages     -> getConfigSelections(<<>>, sel, names)
      [] pg = "part_007"      -> emailSelections(<<>>, sel, names)
      [] pg = "part_004"      -> part004Selections(<<>>, sel, names, text)
      [] pg = "customBuilder" -> builderSelections(<<>>, sel, names)

\* what can be typed into the text input
Texts == {"", "Abc"}

\* input.value: what the input listener last stored, '' before anything was typed
inputValue(sel, g) == IF MapHas(sel, TextKey(g)) THEN MapGet(sel, TextKey(g)) ELSE ""

\* customBuilder.js 304-308: the input listener of the free-text input; the user can type
\* while the input has display 'block' inside a block on display, whatever the group's
\* selection has become since
TypeText ==
    /\ pc = "ready" /\ page = "customBuilder"
    /\ \E i \in 1..Len(optionsByCanon) : \E t \in Texts :
          /\ optionsByCanon[i].key \in dom.inputs
          /\ \E w \in 1..Len(rendered) : rendered[w].k = optionsByCanon[i].key
          /\ inputValue(selected, optionsByCanon[i].key) # t
          /\ selected' = MapSet(selected, TextKey(optionsByCanon[i].key), t)
          /\ event' = [kind |-> "text", k |-> TextKey(optionsByCanon[i].key), v |-> t, before |-> selected]
    /\ UNCHANGED <<page, pc, sheet, product, optionsByCanon, total, saleTotal, rendered, dom, fn>>

\* part_004 446-467, 871-913: the user types into #nameBlockCustomInput (at most 20
\* characters), which is on display and enabled while the Name Block choice starts with
\* 'custom'; the input listener keeps the length and hands nothing to the configuration
TypeName ==
    /\ pc = "ready" /\ page = "part_004"
    /\ isCustom(optionsByCanon, selected)
    /\ \E w \in 1..Len(rendered) : rendered[w].k = "name block"
    /\ \E t \in Texts :
          /\ t # dom.nameText
          /\ dom' = [dom EXCEPT !.nameText = t]
          /\ event' = [kind |-> "text", k |-> "name block", v |-> t, before |-> selected]
    /\ UNCHANGED <<page, pc, sheet, product, optionsByCanon, selected, total, saleTotal, rendered, fn>>

\* window.LemonBanjo.getConfig() of productInfo.js is called, which any script may do at
\* any time, the load still pending or failed included; or the configuration is the one
\* updateEmailConfig() of part_007, part_004 or customBuilder.js handed to setConfig in
\* the last handler: on part_004 with the text the input held then
ReadConfig ==
    /\ pc = "ready" \/ page \in DrawPages
    /\ fn' = [op |-> "config",
              selections |-> configSelections(page, selected, groupNameMap(optionsByCanon),
                                              dom.sentText),
              final_price |-> configFinalPrice(page, product, total, saleTotal)]
    /\ event' = [kind |-> "read", k |-> NULL, v |-> NULL, before |-> selected]
    /\ UNCHANGED <<page, pc, sheet, product, optionsByCanon, selected, total, saleTotal, rendered, dom>>

NextConfig == Load \/ Change \/ TypeText \/ TypeName \/ ReadConfig

SpecConfig == InitPages /\ [][NextConfig]_vars

(***************************************************************************)
(* chooseDefault, the re-default of updateOptionVisibility, and the        *)
(* dependency tests, applied to drawn inputs (SpecChoice)                  *)
(***************************************************************************)
ChoiceNames == {"Brass", "Bronze", "Plain"}

\* the rows of one group without dependencies, in sheet order: distinct names, any sort
\* rank, default flag and visibility
ChoiceLists ==
    { list \in UNION { [1..n -> [option_name : ChoiceNames, price_type : {"add"}, price_delta : {0},
                                 is_default : BOOLEAN, sort : {1, 2}, visible : BOOLEAN,
                                 dep_groupCanon : {NULL}, dep_value : {NULL}]] : n \in 0..2 } :
        \A i, j \in 1..Len(list) : i # j => list[i].option_name # list[j].option_name }

\* an option with the drawn dependency cells, and selections of the group it may name
DependencyCases ==
    { [op |-> "dependencyOk", done |-> FALSE,
       option |-> Opt("Custom", "add", 75, FALSE, 1, TRUE, depG, depV),
       sel |-> sel, outA |-> FALSE, outB |-> FALSE] :
         depG \in {NULL, "", "tone ring"}, depV \in {NULL, "", "Bronze", "BRONZE"},
         sel \in { <<>>, << [k |-> "tone ring", v |-> ""] >>, << [k |-> "tone ring", v |-> "Bronze"] >>,
                   << [k |-> "tone ring", v |-> "Brass"] >>,
                   << [k |-> "inlay", v |-> "Bronze"] >> } }

ChoiceInputs ==
    { [op |-> "chooseDefault", done |-> FALSE, list |-> list, current |-> c,
       outA |-> NULL, outB |-> NULL] :
         list \in ChoiceLists, c \in {NULL, "Brass", "Bronze", "Nickel"} }
    \cup DependencyCases
    \cup { [op |-> "sort", done |-> FALSE, list |-> list,
             order |-> [info |-> <<>>, builder |-> <<>>, part007 |-> <<>>],
             fallback |-> [info |-> NULL, builder |-> NULL, part007 |-> NULL]] :
               list \in ChoiceLists }

InitChoice ==
    /\ page = "none"
    /\ pc = "pure"
    /\ sheet = [ok |-> TRUE, hasRow |-> FALSE, row |-> ProductRow(0, 0, "blank", CNull), options |-> <<>>]
    /\ product = NoProduct
    /\ optionsByCanon = <<>>
    /\ selected = <<>>
    /\ total = 0
    /\ saleTotal = 0
    /\ rendered = <<>>
    /\ dom = StaticDom
    /\ fn \in ChoiceInputs
    /\ event = NoEvent

\* the selection a group "tone ring" is given by one updateOptionVisibility pass when its
\* current value is currentName
reDefault(list, currentName) ==
    MapGet(updateOptionVisibility(<< [key |-> "tone ring", options |-> list] >>,
                                  IF currentName = NULL THEN <<>>
                                  ELSE << [k |-> "tone ring", v |-> currentName] >>).sel,
           "tone ring")

\* outA: productInfo.js, chooseDefault over the visible options of the sorted list;
\* outB: part_007, the re-default of updateOptionVisibility over the list as loaded
ApplyChooseDefault ==
    /\ fn.op = "chooseDefault" /\ ~fn.done
    /\ fn' = [fn EXCEPT !.done = TRUE,
                        !.outA = chooseDefault(SelectSeq(SortBySort(fn.list), IsVisible), fn.current),
                        !.outB = reDefault(fn.list, fn.current)]
    /\ UNCHANGED <<page, pc, sheet, product, optionsByCanon, selected, total, saleTotal, rendered, dom, event>>

\* outA: productInfo.js dependencyOk; outB: the show test of updateOptionVisibility
ApplyDependencyOk ==
    /\ fn.op = "dependencyOk" /\ ~fn.done
    /\ fn' = [fn EXCEPT !.done = TRUE,
                        !.outA = dependencyOk(fn.option, fn.sel),
                        !.outB = optionShown(fn.option, fn.sel)]
    /\ UNCHANGED <<page, pc, sheet, product, optionsByCanon, selected, total, saleTotal, rendered, dom, event>>

\* the selection of the one group "tone ring" after the page initialised on the list:
\* buildOptionBlock and the first updateOptionVisibility pass
firstSelection(list, builder) ==
    LET cat == << [key |-> "tone ring", options |-> list] >>
        s0  == IF builder THEN buildOptionBlocks(cat, <<>>) ELSE initialSelection(cat, <<>>)
    IN  MapGet(updateOptionVisibility(cat, s0).sel, "tone ring")

\* the list a group's widget is built from and the option the group starts with: in
\* productInfo.js (sorted in renderOptions), in customBuilder.js (sorted in
\* loadBuilderData) and in part_007 (as loaded)
ApplySort ==
    /\ fn.op = "sort" /\ ~fn.done
    /\ fn' = [fn EXCEPT !.done = TRUE,
                        !.order = [info    |-> OptionNames(SortBySort(fn.list)),
                                   builder |-> OptionNames(sortBuilderOptions(fn.list)),
                                   part007 |-> OptionNames(fn.list)],
                        !.fallback = [info    |-> chooseDefault(SelectSeq(SortBySort(fn.list), IsVisible), NULL),
                                      builder |-> firstSelection(sortBuilderOptions(fn.list), TRUE),
                                      part007 |-> firstSelection(fn.list, FALSE)]]
    /\ UNCHANGED <<page, pc, sheet, product, optionsByCanon, selected, total, saleTotal, rendered, dom, event>>

NextChoice == ApplyChooseDefault \/ ApplyDependencyOk \/ ApplySort

SpecChoice == InitChoice /\ [][NextChoice]_vars

(***************************************************************************)
(* Two runs of draw() from the same catalog and selection (SpecTwin)       *)
(***************************************************************************)
TwinCatalogs ==
    { c \in Catalogs : /\ \E i \in 1..Len(c) : c[i] = ToneRing(1, TRUE, TRUE, 2)
                       /\ \E i \in 1..Len(c) : c[i].key = "inlay" }

\* selections as draw() may find them, stale entries included; NULL leaves a group out
TwinSelections ==
    { (IF tr = NULL THEN <<>> ELSE << [k |-> "tone ring", v |-> tr] >>) \o
      (IF en = NULL THEN <<>> ELSE << [k |-> "engraving", v |-> en] >>) \o
      (IF inl = NULL THEN <<>> ELSE << [k |-> "inlay", v |-> inl] >>) :
        tr \in {NULL, "Brass", "Bronze"}, en \in {NULL, "Custom", "Plain"},
        inl \in {NULL, "Vine", "Dots"} }

\* the first run starts on an empty host or on the widgets of an earlier draw(); the
\* second run is given the same entries, in the same or in the opposite insertion order
InitTwin ==
    /\ page = "productInfo"
    /\ pc = "twin"
    /\ \E c \in TwinCatalogs :
          /\ sheet = [ok |-> TRUE, hasRow |-> TRUE, row |-> ProductRow(1000, 0, "blank", CNull), options |-> c]
          /\ optionsByCanon = loadOptionsInfo(c)
    /\ product = [loaded |-> TRUE, model_id |-> "LB-3", base_price |-> 1000, sale_price |-> 0,
                  sale_active |-> FALSE]
    /\ selected \in TwinSelections
    /\ total = 0
    /\ saleTotal = 0
    /\ rendered \in {<<>>, drawWidgets(optionsByCanon, << [k |-> "tone ring", v |-> "Brass"] >>)}
    /\ dom = [title |-> "product", price |-> "total", options |-> "widgets", inputs |-> {}, nameText |-> "", sentText |-> ""]
    /\ fn \in { [op |-> "settle", runs |-> 0, first |-> selected, second |-> s2, outA |-> <<>>, outB |-> <<>>,
                 alone |-> [k |-> NULL, v |-> NULL, normalized |-> <<>>, handled |-> <<>>,
                            handledAlone |-> <<>>]] :
                  s2 \in {selected, Reverse(selected)} }
    /\ event = NoEvent

\* draw() on the first selection
RunFirst ==
    /\ fn.op = "settle" /\ fn.runs = 0
    /\ selected' = drawSettle(optionsByCanon, selected)
    /\ total' = drawTotal(product.base_price, optionsByCanon, selected)
    /\ rendered' = drawWidgets(optionsByCanon, selected')
    /\ fn' = [fn EXCEPT !.runs = 1, !.outA = selected']
    /\ UNCHANGED <<page, pc, sheet, product, optionsByCanon, saleTotal, dom, event>>

\* draw() once more, on the second selection and over the widgets the first run left
RunSecond ==
    /\ fn.op = "settle" /\ fn.runs = 1
    /\ selected' = drawSettle(optionsByCanon, fn.second)
    /\ total' = drawTotal(product.base_price, optionsByCanon, fn.second)
    /\ rendered' = drawWidgets(optionsByCanon, selected')
    /\ fn' = [fn EXCEPT !.runs = 2, !.outB = selected']
    /\ UNCHANGED <<page, pc, sheet, product, optionsByCanon, saleTotal, dom, event>>

\* normalizeDependents without pruneInvalidDependents: on the first selection, and in place
\* of the change handler's prune and draw() after a pick in one of the widgets on display
RunNormalizeAlone ==
    /\ fn.op = "settle" /\ fn.runs = 2
    /\ \E i \in 1..Len(rendered) : \E j \in 1..Len(rendered[i].opts) :
          LET g == rendered[i].k
              v == rendered[i].opts[j]
          IN  fn' = [fn EXCEPT !.runs = 3,
                               !.alone = [k |-> g, v |-> v,
                                          normalized   |-> normalizeDependents(dependents(optionsByCanon), fn.first),
                                          handled      |-> drawSettle(optionsByCanon,
                                                               selectChange(optionsByCanon, fn.first, g, v)),
                                          handledAlone |-> normalizeDependents(dependents(optionsByCanon),
                                                               MapSet(fn.first, g, v))]]
    /\ UNCHANGED <<page, pc, sheet, product, optionsByCanon, selected, total, saleTotal, rendered, dom, event>>

NextTwin == RunFirst \/ RunSecond \/ RunNormalizeAlone

SpecTwin == InitTwin /\ [][NextTwin]_vars

(***************************************************************************)
(* renderOptions and draw() statement by statement, in two views of the    *)
(* same product page (SpecDraw)                                            *)
(***************************************************************************)
\* two windows showing the page of the same product
Views == {"first", "second"}

\* a tone ring with both options on offer, an engraving hanging off it and, in most, an
\* inlay that is a provider or hangs off the engraving; in sheet order and reversed
DrawCatalogs ==
    { c \in Catalogs :
        /\ \E i \in 1..Len(c) : c[i] = ToneRing(1, TRUE, TRUE, 2)
        /\ \E i \in 1..Len(c) : \E second \in {"none", "free", "brass"} :
              c[i] = Engraving("Bronze", TRUE, second) }

\* a view before its script has run: LemonState.selected unset, #productOptions empty
StartView ==
    [pc |-> "loading", selected |-> <<>>, host |-> <<>>, total |-> 0,
     calls |-> <<>>, atDraw |-> <<>>, hostAtDraw |-> <<>>]

\* draw() is called: calls lists the functions run for the event being handled, atDraw
\* and hostAtDraw keep the selection and the widgets draw() was entered with
enterDraw(w) ==
    [w EXCEPT !.pc = "prune", !.calls = Append(@, "draw"), !.atDraw = w.selected,
              !.hostAtDraw = w.host]

\* the script runs up to draw(): loadData 220-225 (LemonState.total = product.base_price),
\* renderOptions 272-292 and its call of draw() at 368
renderOptionsEnter(cat, base, w) ==
    enterDraw([w EXCEPT !.selected = providerDefaults(providers(cat), w.selected),
                        !.total = base,
                        !.calls = <<"renderOptions">>])

\* the change listener 346-351, up to and including its call of draw()
selectChangeEnter(cat, w, g, value) ==
    enterDraw([w EXCEPT !.selected = selectChange(cat, w.selected, g, value),
                        !.calls = <<"change">> \o
                                  (IF \E i \in 1..Len(providers(cat)) : providers(cat)[i].key = g
                                   THEN <<"pruneInvalidDependents">> ELSE <<>>)])

\* a faulty draw(): normalizeDependents runs ahead of pruneInvalidDependents
drawStepNormalizeFirst(cat, base, w) ==
    CASE w.pc = "prune" ->
            [w EXCEPT !.selected = normalizeDependents(dependents(cat), w.selected),
                      !.calls = Append(@, "normalizeDependents"), !.pc = "normalize"]
      [] w.pc = "normalize" ->
            [w EXCEPT !.selected = pruneInvalidDependents(dependents(cat), w.selected),
                      !.calls = Append(@, "pruneInvalidDependents"), !.pc = "render"]
      [] w.pc = "render" ->
            [w EXCEPT !.host = drawWidgets(cat, w.selected),
                      !.total = calcPrice(base, w.selected, cat), !.pc = "idle"]

\* the dependent groups that have no widget among those on display
onDisplay(cat, host) ==
    SelectSeq(dependents(cat), LAMBDA d : \E i \in 1..Len(host) : host[i].k = d.key)

\* a faulty draw(): the two passes settle only the groups that have a widget on display
drawStepOnDisplayOnly(cat, base, w) ==
    CASE w.pc = "prune" ->
            [w EXCEPT !.selected = pruneInvalidDependents(onDisplay(cat, w.host), w.selected),
                      !.calls = Append(@, "pruneInvalidDependents"), !.pc = "normalize"]
      [] w.pc = "normalize" ->
            [w EXCEPT !.selected = normalizeDependents(onDisplay(cat, w.host), w.selected),
                      !.calls = Append(@, "normalizeDependents"), !.pc = "render"]
      [] w.pc = "render" ->
            [w EXCEPT !.host = drawWidgets(cat, w.selected),
                      !.total = calcPrice(base, w.selected, cat), !.pc = "idle"]

\* the next statement of draw(): pruneInvalidDependents() at 311, normalizeDependents() at
\* 312, then the widgets and the total (314-365)
drawStep(cat, base, w) ==
    CASE w.pc = "prune" ->
            [w EXCEPT !.selected = pruneInvalidDependents(dependents(cat), w.selected),
                      !.calls = Append(@, "pruneInvalidDependents"), !.pc = "normalize"]
      [] w.pc = "normalize" ->
            [w EXCEPT !.selected = normalizeDependents(dependents(cat), w.selected),
                      !.calls = Append(@, "normalizeDependents"), !.pc = "render"]
      [] w.pc = "render" ->
            [w EXCEPT !.host = drawWidgets(cat, w.selected),
                      !.total = calcPrice(base, w.selected, cat), !.pc = "idle"]

InitDraw ==
    /\ page = "productInfo"
    /\ pc = "views"
    /\ \E c \in DrawCatalogs :
          /\ sheet = [ok |-> TRUE, hasRow |-> TRUE, row |-> ProductRow(1000, 0, "blank", CNull), options |-> c]
          /\ optionsByCanon = loadOptionsInfo(c)
    /\ product = [loaded |-> TRUE, model_id |-> "LB-3", base_price |-> 1000, sale_price |-> 0,
                  sale_active |-> FALSE]
    /\ selected = <<>>
    /\ total = 0
    /\ saleTotal = 0
    /\ rendered = <<>>
    /\ dom = [title |-> "product", price |-> "total", options |-> "widgets", inputs |-> {}, nameText |-> "", sentText |-> ""]
    /\ fn = [op |-> "draw", views |-> [v \in Views |-> StartView]]
    /\ event = NoEvent

\* the script of a view reaches renderOptions
RenderOptions ==
    /\ fn.op = "draw"
    /\ \E v \in Views :
          /\ fn.views[v].pc = "loading"
          /\ fn' = [fn EXCEPT !.views[v] = renderOptionsEnter(optionsByCanon, product.base_price, @)]
    /\ UNCHANGED <<page, pc, sheet, product, optionsByCanon, selected, total, saleTotal, rendered, dom, event>>

\* the user picks another option than the one shown in a widget of a view
SelectChange ==
    /\ fn.op = "draw"
    /\ \E v \in Views : \E i \in 1..Len(fn.views[v].host) :
          \E j \in 1..Len(fn.views[v].host[i].opts) :
             LET w == fn.views[v]
                 g == w.host[i].k
             IN  /\ w.pc = "idle"
                 /\ w.host[i].opts[j] # selValue(w.host[i].opts, MapGet(w.selected, g))
                 /\ fn' = [fn EXCEPT !.views[v] =
                                selectChangeEnter(optionsByCanon, w, g, w.host[i].opts[j])]
    /\ UNCHANGED <<page, pc, sheet, product, optionsByCanon, selected, total, saleTotal, rendered, dom, event>>

\* draw() of a view runs its next statement
DrawStep ==
    /\ fn.op = "draw"
    /\ \E v \in Views :
          /\ fn.views[v].pc \in {"prune", "normalize", "render"}
          /\ fn' = [fn EXCEPT !.views[v] = drawStep(optionsByCanon, product.base_price, @)]
    /\ UNCHANGED <<page, pc, sheet, product, optionsByCanon, selected, total, saleTotal, rendered, dom, event>>

NextDraw == RenderOptions \/ SelectChange \/ DrawStep

SpecDraw == InitDraw /\ [][NextDraw]_vars

(***************************************************************************)
(* Strings as sequences of characters: cleanStr and canon (SpecStrings)    *)
(***************************************************************************)
\* a JavaScript value handed to cleanStr: null/undefined, or a string of characters
Str(chars) == [null |-> FALSE, chars |-> chars]

NullValue == [null |-> TRUE, chars |-> <<>>]

\* the characters strings are drawn from: ASCII letters and a digit, a blank, a hyphen,
\* a non-breaking space, a full-width capital A (NFKC folds it to "A") and a capital
\* E acute (a letter outside 0-9A-Za-z)
Alphabet == {"A", "a", "1", " ", "-", "nbsp", "FWA", "E'"}

AsciiAlnum == {"A", "a", "1", "H", "e", "d", "S", "t", "o", "c", "k", "h", "s"}

\* what String.prototype.trim strips
IsWhite(c) == c \in {" ", "nbsp"}

\* .replace(/ /g, ' ')
replaceNbsp(chars) == [i \in 1..Len(chars) |-> IF chars[i] = "nbsp" THEN " " ELSE chars[i]]

RECURSIVE trimStart(_)
trimStart(chars) ==
    IF chars = <<>> THEN <<>>
    ELSE IF IsWhite(Head(chars)) THEN trimStart(Tail(chars)) ELSE chars

RECURSIVE trimEnd(_)
trimEnd(chars) ==
    IF chars = <<>> THEN <<>>
    ELSE IF IsWhite(chars[Len(chars)]) THEN trimEnd(SubSeq(chars, 1, Len(chars) - 1)) ELSE chars

\* String.prototype.trim
trim(chars) == trimEnd(trimStart(chars))

\* cleanStr: v == null ? '' : String(v).replace(/ /g, ' ').trim()
cleanChars(v) == IF v.null THEN <<>> ELSE trim(replaceNbsp(v.chars))

\* .normalize('NFKC') on the characters of the alphabet
normalizeNFKC(chars) ==
    [i \in 1..Len(chars) |->
        CASE chars[i] = "FWA"  -> "A"
          [] chars[i] = "nbsp" -> " "
          [] OTHER             -> chars[i]]

RECURSIVE dropNonAlnum(_)
\* the rest of the string after a leading run of characters outside 0-9A-Za-z
dropNonAlnum(chars) ==
    IF chars = <<>> THEN <<>>
    ELSE IF Head(chars) \in AsciiAlnum THEN chars ELSE dropNonAlnum(Tail(chars))

RECURSIVE replaceNonAlnum(_)
\* .replace(/[^0-9A-Za-z]+/g, ' ')
replaceNonAlnum(chars) ==
    IF chars = <<>> THEN <<>>
    ELSE IF Head(chars) \in AsciiAlnum
         THEN <<Head(chars)>> \o replaceNonAlnum(Tail(chars))
         ELSE <<" ">> \o replaceNonAlnum(dropNonAlnum(chars))

\* String.prototype.toLowerCase, character by character
lowerChars(chars) ==
    [i \in 1..Len(chars) |->
        CASE chars[i] = "A"   -> "a"
          [] chars[i] = "H"   -> "h"
          [] chars[i] = "S"   -> "s"
          [] chars[i] = "FWA" -> "fwa"
          [] chars[i] = "E'"  -> "e'"
          [] OTHER            -> chars[i]]

\* a faulty canon: trimmed before the punctuation runs are replaced
canonTrimFirst(v) == lowerChars(replaceNonAlnum(trim(normalizeNFKC(cleanChars(v)))))

\* productInfo.js canon
canon(v) == lowerChars(trim(replaceNonAlnum(normalizeNFKC(cleanChars(v)))))

\* part_007, part_004, customBuilder.js canon
canonFlat(v) == lowerChars(cleanChars(v))

MaxStrLen == 3

MaxPairLen == 3

StringsUpTo(n, alphabet) == UNION { [1..k -> alphabet] : k \in 0..n }

HeadStock == <<"H", "e", "a", "d", " ", " ", "S", "t", "o", "c", "k">>

headstock == <<"h", "e", "a", "d", "s", "t", "o", "c", "k">>

\* the characters the pairs are drawn from
PairAlphabet == {"A", "a", " ", "-"}

StringInputs ==
    { [op |-> "canon", done |-> FALSE, a |-> v, b |-> NullValue, outA |-> <<>>, outB |-> <<>>] :
        v \in {NullValue} \cup { Str(c) : c \in StringsUpTo(MaxStrLen, Alphabet) \cup {HeadStock} } }
    \cup
    { [op |-> "canonPair", done |-> FALSE, a |-> Str(x), b |-> Str(y), outA |-> <<>>, outB |-> <<>>] :
        x \in StringsUpTo(MaxPairLen, PairAlphabet) \cup {HeadStock},
        y \in StringsUpTo(MaxPairLen, PairAlphabet) \cup {headstock} }

InitStrings ==
    /\ page = "none"
    /\ pc = "pure"
    /\ sheet = [ok |-> TRUE, hasRow |-> FALSE, row |-> ProductRow(0, 0, "blank", CNull), options |-> <<>>]
    /\ product = NoProduct
    /\ optionsByCanon = <<>>
    /\ selected = <<>>
    /\ total = 0
    /\ saleTotal = 0
    /\ rendered = <<>>
    /\ dom = StaticDom
    /\ fn \in StringInputs
    /\ event = NoEvent

\* one string through both canon functions: outA by productInfo.js, outB by the later scripts
ApplyCanon ==
    /\ fn.op = "canon" /\ ~fn.done
    /\ fn' = [fn EXCEPT !.done = TRUE, !.outA = canon(fn.a), !.outB = canonFlat(fn.a)]
    /\ UNCHANGED <<page, pc, sheet, product, optionsByCanon, selected, total, saleTotal, rendered, dom, event>>

\* two strings through the productInfo.js canon
ApplyCanonPair ==
    /\ fn.op = "canonPair" /\ ~fn.done
    /\ fn' = [fn EXCEPT !.done = TRUE, !.outA = canon(fn.a), !.outB = canon(fn.b)]
    /\ UNCHANGED <<page, pc, sheet, product, optionsByCanon, selected, total, saleTotal, rendered, dom, event>>

NextStrings == ApplyCanon \/ ApplyCanonPair

SpecStrings == InitStrings /\ [][NextStrings]_vars

(***************************************************************************)
(* loadData on raw sheet cells: the option rows of every loader (SpecLoad) *)
(***************************************************************************)
LoadScripts == {"productInfo", "unified", "part_001", "part_007"}

\* the cells of a raw row that the row normalizers of section "loadData" do not touch
typedRow(raw, delta, def, vis) ==
    [option_name |-> cleanStr(raw.option_name), price_type |-> raw.price_type, price_delta |-> delta,
     is_default |-> def, sort |-> raw.sort, visible |-> vis,
     dep_groupCanon |-> raw.dep_group, dep_value |-> raw.dep_value]

\* the object one option row is stored as, per loader
loadRow(script, raw) ==
    CASE script = "productInfo" ->
            optionRowInfo(typedRow(raw, numberOrZero(raw.price_delta),
                                   boolByString(raw.is_default), boolByString(raw.visible)))
      [] script = "part_007" ->
            optionRowFlat(typedRow(raw, numberOrZero(raw.price_delta),
                                   boolByType(raw.is_default), boolByType(raw.visible)))
      [] OTHER ->
            optionRowUnified(typedRow(raw, plusOrZero(raw.price_delta),
                                      defaultByString(raw.is_default), visibleUnlessFalse(raw.visible)))

\* if (!groupOrig) return; ... if (!optNameClean) return;  (first script and part_007 only)
rowSkipped(script, raw) ==
    /\ script \in {"productInfo", "part_007"}
    /\ (cleanChars(raw.group) = <<>> \/ cleanStr(raw.option_name) = "")

\* groupCanon: canon(groupOrig) by the canon of the script
groupCanonOf(script, raw) ==
    IF script = "part_007" THEN canonFlat(Str(cleanChars(raw.group))) ELSE canon(Str(cleanChars(raw.group)))

\* optionsByCanon[groupCanon].push(option), the group being created on its first row
pushOption(cat, key, o) ==
    IF \E i \in 1..Len(cat) : cat[i].key = key
    THEN [i \in 1..Len(cat) |-> IF cat[i].key = key
                                THEN [cat[i] EXCEPT !.options = Append(@, o)] ELSE cat[i]]
    ELSE Append(cat, [key |-> key, options |-> <<o>>])

\* a faulty groupNameMap: every row writes its spelling
nameAlways(names, key, groupOrig) == MapSet(names, key, groupOrig)

\* if (!groupNameMap[groupCanon]) groupNameMap[groupCanon] = groupOrig
nameOnce(names, key, groupOrig) ==
    IF MapHas(names, key) /\ MapGet(names, key) # <<>> THEN names ELSE MapSet(names, key, groupOrig)

RECURSIVE loadRowsFrom(_, _, _)
\* rows(optT).forEach(row => ...), acc being [optionsByCanon, groupNameMap]
loadRowsFrom(script, rows, acc) ==
    IF rows = <<>> THEN acc
    ELSE IF rowSkipped(script, Head(rows)) THEN loadRowsFrom(script, Tail(rows), acc)
    ELSE loadRowsFrom(script, Tail(rows),
             [optionsByCanon |-> pushOption(acc.optionsByCanon, groupCanonOf(script, Head(rows)),
                                            loadRow(script, Head(rows))),
              groupNameMap   |-> nameOnce(acc.groupNameMap, groupCanonOf(script, Head(rows)),
                                          cleanChars(Head(rows).group))])

loadRows(script, rows) == loadRowsFrom(script, rows, [optionsByCanon |-> <<>>, groupNameMap |-> <<>>])

\* a raw option row
RawRow(g, o, d, t, def, srt, vis) ==
    [group |-> g, option_name |-> o, price_delta |-> d, price_type |-> t, is_default |-> def,
     sort |-> srt, visible |-> vis, dep_group |-> NULL, dep_value |-> NULL]

\* spellings of one group name ("A a", "a a", "A  A", "A-a", with a padding blank),
\* of another ("a"), a lone hyphen, and empty ones
GroupCells ==
    { Str(<<"A", " ", "a">>), Str(<<"a", " ", "a">>), Str(<<"A", " ", " ", "A">>),
      Str(<<"A", "-", "a">>), Str(<<" ", "A", " ", "a">>), Str(<<"a">>), Str(<<"-">>),
      Str(<<" ">>), Str(<<>>), NullValue }

BoolCells ==
    { CBool(TRUE), CBool(FALSE), CStr("true"), CStr("TRUE"), CStr("True"), CStr("false"),
      CStr("yes"), CStr("1"), CStr(""), CNum(1), CNum(0), CNum(75), CNull }

DeltaCells == { CNum(75), CNum(0), CStr("75"), CStr("abc"), CStr(""), CBool(TRUE), CNull }

TypeCells == { NULL, "", "add", "pct", "abs", "PCT", "percent", "Percent", "flat", "bogus" }

\* rows that vary the names, rows that vary the price cells, rows that vary the
\* boolean cells
RawRows ==
    { RawRow(g, o, CNum(75), "add", CBool(FALSE), 1, CBool(TRUE)) :
        g \in GroupCells, o \in {"Brass", "Bronze", "", NULL} }
    \cup { RawRow(Str(<<"A", " ", "a">>), "Brass", d, t, CBool(FALSE), 1, CBool(TRUE)) :
             d \in DeltaCells, t \in TypeCells }
    \cup { RawRow(Str(<<"A", " ", "a">>), "Brass", CNum(75), "add", def, 1, vis) :
             def \in BoolCells, vis \in BoolCells }

\* loadData 120-128 of part_007 and loadBuilderData 80-88: the product record from the
\* base, sale-price and sale-active cells
loadProduct(baseCell, saleCell, activeCell) ==
    [loaded |-> TRUE, model_id |-> "LB-3",
     base_price  |-> numberOrZero(baseCell).n,
     sale_price  |-> numberOrZero(saleCell).n,
     sale_active |-> boolByType(activeCell) /\ numberOrZero(saleCell).n > 0]

SaleCells == { CNum(800), CNum(100), CNum(0), CNum(-100), CNull }

\* one row, or a row that varies the names followed by any row
LoadInputs ==
    { [op |-> "loadData", done |-> FALSE, script |-> sc, rows |-> rs,
       out |-> [optionsByCanon |-> <<>>, groupNameMap |-> <<>>]] :
         sc \in LoadScripts,
         rs \in { <<r>> : r \in RawRows } \cup
                { <<RawRow(g, "Bronze", CNum(0), "add", CBool(TRUE), 2, CBool(TRUE)), r>> :
                    g \in GroupCells, r \in RawRows } }
    \cup
    { [op |-> "loadProduct", done |-> FALSE, changed |-> FALSE, saleCell |-> sc, activeCell |-> ac,
       cat |-> PriceCatalog("flat", d, "flat", 0),
       out |-> [product |-> NoProduct, selected |-> <<>>, totals |-> [regular |-> 0, sale |-> 0],
                shown |-> [original |-> 0, sale |-> 0, struck |-> FALSE]]] :
         sc \in SaleCells, ac \in BoolCells, d \in {-100, 50} }

InitLoad ==
    /\ page = "none"
    /\ pc = "pure"
    /\ sheet = [ok |-> TRUE, hasRow |-> FALSE, row |-> ProductRow(0, 0, "blank", CNull), options |-> <<>>]
    /\ product = NoProduct
    /\ optionsByCanon = <<>>
    /\ selected = <<>>
    /\ total = 0
    /\ saleTotal = 0
    /\ rendered = <<>>
    /\ dom = StaticDom
    /\ fn \in LoadInputs
    /\ event = NoEvent

ApplyLoadData ==
    /\ fn.op = "loadData" /\ ~fn.done
    /\ fn' = [fn EXCEPT !.done = TRUE, !.out = loadRows(fn.script, fn.rows)]
    /\ UNCHANGED <<page, pc, sheet, product, optionsByCanon, selected, total, saleTotal, rendered, dom, event>>

\* part_007 initProductPage 697-713: loadData loads the product row and empties the
\* selection, renderOptions and updateOptionVisibility choose the page's own selection,
\* and recalcPrice puts the price of that selection on display
ApplyLoadProduct ==
    /\ fn.op = "loadProduct" /\ ~fn.done
    /\ LET p  == loadProduct(CNum(1000), fn.saleCell, fn.activeCell)
           s0 == initialSelection(fn.cat, <<>>)
           r1 == updateOptionVisibility(fn.cat, s0)
           r2 == updateOptionVisibility(fn.cat, r1.sel)
           t  == recalcPrice(p, fn.cat, r2.sel)
       IN  fn' = [fn EXCEPT !.done = TRUE,
                            !.out = [product |-> p, selected |-> r2.sel, totals |-> t,
                                     shown |-> priceShown(p, t)]]
    /\ UNCHANGED <<page, pc, sheet, product, optionsByCanon, selected, total, saleTotal, rendered, dom, event>>

\* part_007 328-333: on the loaded page the user picks another option of a group; the
\* handler stores it, recalcPrice and updateOptionVisibility run and the price on display
\* is that of the new selection
ApplyChangeProduct ==
    /\ fn.op = "loadProduct" /\ fn.done /\ ~fn.changed
    /\ \E i \in 1..Len(fn.cat) : \E j \in 1..Len(fn.cat[i].options) :
          /\ fn.cat[i].options[j].option_name # MapGet(fn.out.selected, fn.cat[i].key)
          /\ LET r == changeVisibility(fn.out.product, fn.cat, fn.out.selected,
                                       fn.cat[i].key, fn.cat[i].options[j].option_name)
                 t == [regular |-> r.total, sale |-> r.saleTotal]
             IN  fn' = [fn EXCEPT !.changed = TRUE,
                                  !.out = [product |-> fn.out.product, selected |-> r.selected,
                                           totals |-> t, shown |-> priceShown(fn.out.product, t)]]
    /\ UNCHANGED <<page, pc, sheet, product, optionsByCanon, selected, total, saleTotal, rendered, dom, event>>

NextLoad == ApplyLoadData \/ ApplyLoadProduct \/ ApplyChangeProduct

SpecLoad == InitLoad /\ [][NextLoad]_vars

(***************************************************************************)
(* The unified loader's data sources: gvizQuery (SpecSources)              *)
(***************************************************************************)
\* the page engine at rest while a helper outside it is exercised
engineVars == <<page, pc, sheet, product, optionsByCanon, selected, total, saleTotal, rendered, dom, event>>

EngineAtRest ==
    /\ page = "none"
    /\ pc = "pure"
    /\ sheet = [ok |-> TRUE, hasRow |-> FALSE, row |-> ProductRow(0, 0, "blank", CNull), options |-> <<>>]
    /\ product = NoProduct
    /\ optionsByCanon = <<>>
    /\ selected = <<>>
    /\ total = 0
    /\ saleTotal = 0
    /\ rendered = <<>>
    /\ dom = StaticDom
    /\ event = NoEvent

\* candidateUrls: the PHP cache, the static JSON file, Google through the CORS proxy
candidateUrls == <<"php", "static", "google">>

NoError == [src |-> "none", what |-> "none"]

\* a body: how its trimmed text starts (lead) and what its JSON payload parses to (json)
Body(lead, json) == [lead |-> lead, json |-> json]

\* what a source has answered so far: net is the outcome of await fetch (a Response that
\* is ok, a rejected fetch, a non-OK status, an abort by the 7000 ms timer), read that of
\* await res.text() (the body, a failed read, an abort)
NoAnswer == [net |-> "none", read |-> "none", body |-> Body("other", "invalid")]

\* fetchText 495-502: the body, or the error of a rejected fetch, a non-OK status, an
\* abort, or a body that could not be read
fetchText(src, r) ==
    CASE r.net = "error"                       -> [ok |-> FALSE, body |-> r.body, err |-> [src |-> src, what |-> "TypeError"]]
      [] r.net = "http"                        -> [ok |-> FALSE, body |-> r.body, err |-> [src |-> src, what |-> "HTTP"]]
      [] r.net = "timeout"                     -> [ok |-> FALSE, body |-> r.body, err |-> [src |-> src, what |-> "AbortError"]]
      [] r.net = "ok" /\ r.read = "error"      -> [ok |-> FALSE, body |-> r.body, err |-> [src |-> src, what |-> "TypeError"]]
      [] r.net = "ok" /\ r.read = "timeout"    -> [ok |-> FALSE, body |-> r.body, err |-> [src |-> src, what |-> "AbortError"]]
      [] r.net = "ok" /\ r.read = "ok"         -> [ok |-> TRUE, body |-> r.body, err |-> NoError]

\* toGvizTable: (a) raw JSON, (b) the )]}' prefix, (c) the setResponse wrapper, (d) an
\* array of objects; JSON.parse throws on an invalid payload
toGvizTable(b) ==
    CASE b.lead \in {"brace", "prefix", "wrap"} /\ b.json = "invalid" -> [ok |-> FALSE, what |-> "SyntaxError"]
      [] b.lead \in {"brace", "prefix", "wrap"} /\ b.json = "table"   -> [ok |-> TRUE, what |-> "table"]
      [] b.lead = "brace"                                              -> [ok |-> FALSE, what |-> "Unrecognized"]
      [] b.lead \in {"prefix", "wrap"}                                 -> [ok |-> FALSE, what |-> "SyntaxError"]
      [] b.lead = "bracket" /\ b.json = "rowsArray"                    -> [ok |-> TRUE, what |-> "table"]
      [] b.lead = "bracket" /\ b.json = "emptyArray"                   -> [ok |-> FALSE, what |-> "Unrecognized"]
      [] OTHER                                                         -> [ok |-> FALSE, what |-> "SyntaxError"]

\* a call of gvizQuery: tried are the urls whose fetchText was called, the last of them in
\* flight while stage is "response" (await fetch) or "body" (await res.text()); timer is
\* the abort timer of the pass in flight
NoQueryCall ==
    [stage |-> "idle", tried |-> <<>>, answers |-> [s \in {"php", "static", "google"} |-> NoAnswer],
     timer |-> FALSE, lastErr |-> NoError, result |-> "pending", from |-> "none", thrown |-> NoError]

\* gvizQuery 537-539 and fetchText 496-497: the loop takes the next url, the timer is set
\* and fetch is called; 545: the loop is through and the last error is thrown
nextUrl(st) ==
    IF Len(st.tried) = Len(candidateUrls)
    THEN [st EXCEPT !.stage = "done", !.result = "thrown", !.thrown = st.lastErr]
    ELSE [st EXCEPT !.tried = Append(st.tried, candidateUrls[Len(st.tried) + 1]),
                    !.stage = "response", !.timer = TRUE]

\* a faulty loop body: the first error is kept
trySourceKeepingFirstError(st, src, r) ==
    LET f    == fetchText(src, r)
        t    == toGvizTable(r.body)
        e    == IF f.ok THEN [src |-> src, what |-> t.what] ELSE f.err
        over == [st EXCEPT !.answers[src] = r, !.timer = FALSE]
    IN  IF f.ok /\ t.ok
        THEN [over EXCEPT !.stage = "done", !.result = "table", !.from = src]
        ELSE nextUrl([over EXCEPT !.lastErr = IF st.lastErr = NoError THEN e ELSE st.lastErr])

\* gvizQuery 538-545, the turn in which the pass over url ends with the answer r: finally
\* clears the timer, a table is returned, or the error is caught into lastErr and the loop
\* goes on within the same turn
trySource(st, src, r) ==
    LET f    == fetchText(src, r)
        t    == toGvizTable(r.body)
        e    == IF f.ok THEN [src |-> src, what |-> t.what] ELSE f.err
        over == [st EXCEPT !.answers[src] = r, !.timer = FALSE]
    IN  IF f.ok /\ t.ok
        THEN [over EXCEPT !.stage = "done", !.result = "table", !.from = src]
        ELSE nextUrl([over EXCEPT !.lastErr = e])

Bodies ==
    { Body(l, j) : l \in {"brace", "prefix", "wrap"}, j \in {"table", "object", "invalid"} }
    \cup { Body("bracket", j) : j \in {"rowsArray", "emptyArray", "invalid"} }
    \cup { Body("other", "invalid") }

\* the gvizQuery calls loadData makes together (578-582)
SourceQueries == {"Products", "Options"}

\* how await fetch can end for a query of the model
NetOutcomes(q) == IF q = "Products" THEN {"ok", "error", "http", "timeout"} ELSE {"ok", "http"}

\* how await res.text() can end for a query of the model
ReadOutcomes(q) ==
    IF q = "Products"
    THEN { [read |-> "ok", body |-> b] : b \in Bodies }
         \cup { [read |-> x, body |-> Body("other", "invalid")] : x \in {"error", "timeout"} }
    ELSE { [read |-> "ok", body |-> Body("prefix", "table")],
           [read |-> "timeout", body |-> Body("other", "invalid")] }

InitSources ==
    /\ EngineAtRest
    /\ fn = [op |-> "gvizQuery", queries |-> [q \in SourceQueries |-> NoQueryCall]]

\* loadData 578-582: the calls inside Promise.all are made in one turn, each up to its
\* first await
CallQueries ==
    /\ fn.op = "gvizQuery"
    /\ \A q \in SourceQueries : fn.queries[q].stage = "idle"
    /\ fn' = [fn EXCEPT !.queries = [q \in SourceQueries |-> nextUrl(fn.queries[q])]]
    /\ UNCHANGED engineVars

\* await fetch of the pass in flight settles (497-498): an ok Response leads to
\* res.text(), anything else ends the pass
ResponseArrives ==
    /\ fn.op = "gvizQuery"
    /\ \E q \in SourceQueries : \E net \in NetOutcomes(q) :
          /\ fn.queries[q].stage = "response"
          /\ LET st  == fn.queries[q]
                 src == st.tried[Len(st.tried)]
                 r   == [NoAnswer EXCEPT !.net = net]
             IN  fn' = [fn EXCEPT !.queries[q] =
                            IF net = "ok"
                            THEN [st EXCEPT !.stage = "body", !.answers[src] = r]
                            ELSE trySource(st, src, r)]
    /\ UNCHANGED engineVars

\* await res.text() of the pass in flight settles (499) and the pass ends
BodyArrives ==
    /\ fn.op = "gvizQuery"
    /\ \E q \in SourceQueries : \E o \in ReadOutcomes(q) :
          /\ fn.queries[q].stage = "body"
          /\ LET st  == fn.queries[q]
                 src == st.tried[Len(st.tried)]
             IN  fn' = [fn EXCEPT !.queries[q] =
                            trySource(st, src, [net |-> "ok", read |-> o.read, body |-> o.body])]
    /\ UNCHANGED engineVars

NextSources == CallQueries \/ ResponseArrives \/ BodyArrives

SpecSources == InitSources /\ [][NextSources]_vars

(***************************************************************************)
(* The cached proxy gviz.php (SpecProxy)                                   *)
(***************************************************************************)
\* $TTL: cache time in seconds
TTL == 120

\* the clock of the model stops here
MaxTime == 125

\* trim($_GET['sheet']) on the sheet parameters of the model; an unset parameter is ''
phpTrim(s) ==
    CASE s = " Options" -> "Options"
      [] s = " "        -> ""
      [] OTHER          -> s

\* $SHEET_ID . '|' . $sheet . '|' . $tq, the text whose md5 names the cache file
cacheKey(s, tq) == <<"SHEET_ID", "|", s, "|", tq>>

NoFile == [exists |-> FALSE, mtime |-> 0, body |-> ""]

\* file_get_contents($googleUrl) returned false
UpstreamFailed == "<false>"

\* $expired = !file_exists($file) || (time() - filemtime($file) > $TTL)
expired(f, now) == ~f.exists \/ (now - f.mtime > TTL)

\* a request in one of the PHP processes: where it stands, $sheet (trimmed), $tq, what
\* file_get_contents($googleUrl) returned, and what it answered; at and seen keep the clock
\* and the cache file of the moment it arrived
NoRequest ==
    [pc |-> "idle", sheet |-> "", tq |-> "", at |-> 0, seen |-> NoFile, fetched |-> FALSE,
     up |-> UpstreamFailed, status |-> 0, body |-> ""]

\* gviz.php 22-47: the inputs, the 400 exit, $expired on the file and clock of this
\* moment; an expired request goes on to wait for Google, another to line 62
arrive(f, now, sheetName, tq) ==
    IF phpTrim(sheetName) = ""
    THEN [NoRequest EXCEPT !.pc = "done", !.status = 400, !.body = "missing sheet"]
    ELSE [NoRequest EXCEPT !.pc = IF expired(f, now) THEN "fetching" ELSE "serve",
                           !.sheet = phpTrim(sheetName), !.tq = tq, !.at = now, !.seen = f]

\* gviz.php 48-58, once file_get_contents($googleUrl) has returned: file_put_contents
\* opens the cache file, which truncates it, unless the open fails, which @ silences
\* (opened); with nothing to write the 502 exit is taken when there is no file; f and now
\* are the file and the clock of this moment
fetchIfNeeded(f, now, up, opened) ==
    IF up # UpstreamFailed /\ up # ""
    THEN IF opened
         THEN [file |-> [exists |-> TRUE, mtime |-> now, body |-> ""], writing |-> TRUE, exit |-> 0]
         ELSE [file |-> f, writing |-> FALSE, exit |-> 0]
    ELSE IF ~f.exists
         THEN [file |-> f, writing |-> FALSE, exit |-> 502]
         ELSE [file |-> f, writing |-> FALSE, exit |-> 0]

\* line 52, the end of file_put_contents: the body is in the file
filePutContents(now, up) == [exists |-> TRUE, mtime |-> now, body |-> up]

\* the part of a body that is in the file while it is being written
partOf(up) == IF up \in {"gviz A", "gviz B"} THEN "gviz" ELSE ""

\* what file_get_contents($file) at line 62 can return for a file that is there: the
\* file's content, or, while other processes are writing it without a lock (their bodies
\* are beingWritten), a part of what they write
readable(f, beingWritten) == {f.body} \cup { partOf(up) : up \in beingWritten }

\* gviz.php 62-73: the cache file is read and echoed; a file that is not there reads as false
serve(f, read) ==
    IF ~f.exists
    THEN [status |-> 500, body |-> "cache read failed"]
    ELSE [status |-> 200, body |-> read]

ProxySheets == {"Options", " Options", "", " "}

ProxyQueries == {"", "select A"}

ProxyKeys == { cacheKey("Options", tq) : tq \in ProxyQueries }

\* what Google answers: nothing, an empty body, or one of two payloads
UpstreamAnswers == {UpstreamFailed, "", "gviz A", "gviz B"}

\* the PHP processes serving requests side by side
ProxyWorkers == {1, 2}

NoStep == [worker |-> 0, step |-> "none", sheet |-> ""]

\* a request that has answered leaves its process
Retire(reqs) == [w \in ProxyWorkers |-> IF reqs[w].pc = "done" THEN NoRequest ELSE reqs[w]]

InitProxy ==
    /\ EngineAtRest
    /\ fn = [op |-> "gviz.php", now |-> 0, files |-> [k \in ProxyKeys |-> NoFile],
             before |-> [k \in ProxyKeys |-> NoFile],
             reqs |-> [w \in ProxyWorkers |-> NoRequest], last |-> NoStep]

\* time passes, between requests and while a request waits for Google
Tick ==
    /\ fn.op = "gviz.php"
    /\ \E d \in {60, 61} :
          /\ fn.now + d <= MaxTime
          /\ fn' = [fn EXCEPT !.now = fn.now + d, !.before = fn.files,
                              !.reqs = Retire(fn.reqs), !.last = NoStep]
    /\ UNCHANGED engineVars

\* a request arrives at an idle process and runs up to the upstream fetch (lines 22-47)
Request ==
    /\ fn.op = "gviz.php"
    /\ \E w \in ProxyWorkers, sheetName \in ProxySheets, tq \in ProxyQueries :
          /\ fn.reqs[w].pc \in {"idle", "done"}
          /\ fn' = [fn EXCEPT !.before = fn.files,
                              !.reqs = [Retire(fn.reqs) EXCEPT ![w] =
                                           arrive(fn.files[cacheKey(phpTrim(sheetName), tq)],
                                                  fn.now, sheetName, tq)],
                              !.last = [worker |-> w, step |-> "arrive", sheet |-> sheetName]]
    /\ UNCHANGED engineVars

\* file_get_contents($googleUrl) returns and lines 50-58 run, the write at line 52 as far
\* as the opening of the file
UpstreamReturns ==
    /\ fn.op = "gviz.php"
    /\ \E w \in ProxyWorkers, up \in UpstreamAnswers, opened \in BOOLEAN :
          /\ fn.reqs[w].pc = "fetching"
          /\ LET key == cacheKey(fn.reqs[w].sheet, fn.reqs[w].tq)
                 r   == fetchIfNeeded(fn.files[key], fn.now, up, opened)
             IN  fn' = [fn EXCEPT !.files = [fn.files EXCEPT ![key] = r.file],
                                  !.before = fn.files,
                                  !.reqs = [Retire(fn.reqs) EXCEPT ![w] =
                                               IF r.exit = 502
                                               THEN [fn.reqs[w] EXCEPT !.pc = "done", !.fetched = TRUE,
                                                                       !.up = up, !.status = 502,
                                                                       !.body = "upstream fetch failed"]
                                               ELSE [fn.reqs[w] EXCEPT !.pc = IF r.writing THEN "writing" ELSE "serve",
                                                                       !.fetched = TRUE, !.up = up]],
                                  !.last = [worker |-> w, step |-> "fetched", sheet |-> fn.reqs[w].sheet]]
    /\ UNCHANGED engineVars

\* file_put_contents of line 52 returns: the body is written
WriteEnds ==
    /\ fn.op = "gviz.php"
    /\ \E w \in ProxyWorkers :
          /\ fn.reqs[w].pc = "writing"
          /\ fn' = [fn EXCEPT !.files = [fn.files EXCEPT ![cacheKey(fn.reqs[w].sheet, fn.reqs[w].tq)] =
                                            filePutContents(fn.now, fn.reqs[w].up)],
                              !.before = fn.files,
                              !.reqs = [Retire(fn.reqs) EXCEPT ![w] = [fn.reqs[w] EXCEPT !.pc = "serve"]],
                              !.last = [worker |-> w, step |-> "written", sheet |-> fn.reqs[w].sheet]]
    /\ UNCHANGED engineVars

\* the bodies other processes are writing into the cache file of process w at this moment
BeingWritten(reqs, w) ==
    { reqs[v].up : v \in { x \in ProxyWorkers \ {w} :
                              /\ reqs[x].pc = "writing"
                              /\ cacheKey(reqs[x].sheet, reqs[x].tq) = cacheKey(reqs[w].sheet, reqs[w].tq) } }

\* lines 62-73 run: the answer is what the read of the cache file returns now
Serve ==
    /\ fn.op = "gviz.php"
    /\ \E w \in ProxyWorkers :
          /\ fn.reqs[w].pc = "serve"
          /\ \E read \in readable(fn.files[cacheKey(fn.reqs[w].sheet, fn.reqs[w].tq)],
                                   BeingWritten(fn.reqs, w)) :
             LET r == serve(fn.files[cacheKey(fn.reqs[w].sheet, fn.reqs[w].tq)], read)
             IN  fn' = [fn EXCEPT !.before = fn.files,
                                  !.reqs = [Retire(fn.reqs) EXCEPT ![w] =
                                               [fn.reqs[w] EXCEPT !.pc = "done", !.status = r.status,
                                                                  !.body = r.body]],
                                  !.last = [worker |-> w, step |-> "serve", sheet |-> fn.reqs[w].sheet]]
    /\ UNCHANGED engineVars

NextProxy == Tick \/ Request \/ UpstreamReturns \/ WriteEnds \/ Serve

SpecProxy == InitProxy /\ [][NextProxy]_vars

(***************************************************************************)
(* The localStorage cache of fetchGvizText (SpecClientCache)               *)
(***************************************************************************)
LEMON_TTL_MS == 300000

\* Date.now() of the model stops here
MaxClock == 300001

\* gvizCacheKey
gvizCacheKey(sheetName, tq) == <<"lb_gviz", ":", "SHEET_ID", ":", sheetName, ":", tq>>

NoEntry == [exists |-> FALSE, t |-> 0, txt |-> <<>>]

\* txt.includes('google.visualization.Query') on a text held as a sequence of pieces
includes(txt, piece) == \E i \in 1..Len(txt) : txt[i] = piece

\* a faulty age test: an entry as old as the TTL still counts
cacheHitAtTTL(e, now) == e.exists /\ e.txt # <<>> /\ now - e.t <= LEMON_TTL_MS

\* fetchGvizText 37-44: the stored entry parses, txt is not empty and is younger than the TTL
cacheHit(e, now) == e.exists /\ e.txt # <<>> /\ now - e.t < LEMON_TTL_MS

\* a call of fetchGvizText: where it stands, its key, what the network answered and what
\* it returned; at and seen keep the clock and the stored entry of the moment it was made
NoCall ==
    [pc |-> "idle", key |-> <<>>, at |-> 0, seen |-> NoEntry,
     net |-> [rejected |-> TRUE, txt |-> <<>>], result |-> <<>>,
     networked |-> FALSE, rejected |-> FALSE]

\* fetchGvizText 33-48, up to the first await: the cached text is returned, or the fetch
\* is issued and the call waits for it
fetchGvizText(storage, now, fresh, key) ==
    IF ~fresh /\ cacheHit(storage[key], now)
    THEN [NoCall EXCEPT !.pc = "done", !.key = key, !.result = storage[key].txt]
    ELSE [NoCall EXCEPT !.pc = "awaiting", !.key = key, !.networked = TRUE]

\* fetchGvizText 48-49, when fetch settles: a rejection ends the call; on a Response, of
\* whatever status, res.text() is called and the call waits again
fetchGvizTextFetched(call, responded) ==
    IF responded
    THEN [call EXCEPT !.pc = "reading"]
    ELSE [call EXCEPT !.pc = "done", !.rejected = TRUE]

\* fetchGvizText 49-58, when res.text() settles: net is the text read, or a rejected read;
\* stored tells whether localStorage.setItem kept the entry (its exception is caught);
\* now is Date.now() of this moment
fetchGvizTextResumed(storage, now, fresh, call, net, stored) ==
    IF net.rejected
    THEN [storage |-> storage,
          call |-> [call EXCEPT !.pc = "done", !.net = net, !.rejected = TRUE]]
    ELSE [storage |-> IF ~fresh /\ net.txt # <<>> /\ includes(net.txt, "google.visualization.Query")
                         /\ stored
                      THEN [storage EXCEPT ![call.key] = [exists |-> TRUE, t |-> now, txt |-> net.txt]]
                      ELSE storage,
          call |-> [call EXCEPT !.pc = "done", !.net = net, !.result = net.txt]]

ClientKeys == { gvizCacheKey("Products", "select A"), gvizCacheKey("Options", "select B") }

\* the body read is a GViz payload (two versions), an error page or nothing, or the read fails
NetAnswers ==
    { [rejected |-> FALSE, txt |-> t] :
        t \in { <<"/*O_o*/", "google.visualization.Query", ".setResponse(A)">>,
                <<"/*O_o*/", "google.visualization.Query", ".setResponse(B)">>,
                <<"<html>", "502">>, <<>> } }
    \cup { [rejected |-> TRUE, txt |-> <<>>] }

\* the calls of fetchGvizText the page has under way at once
ClientCalls == {1, 2}

NoClientStep == [call |-> 0, step |-> "none"]

\* a call that has returned is gone
Returned(calls) == [c \in ClientCalls |-> IF calls[c].pc = "done" THEN NoCall ELSE calls[c]]

InitClientCache ==
    /\ EngineAtRest
    /\ fn \in { [op |-> "fetchGvizText", now |-> 0, fresh |-> f,
                 storage |-> [k \in ClientKeys |-> NoEntry],
                 before |-> [k \in ClientKeys |-> NoEntry],
                 calls |-> [c \in ClientCalls |-> NoCall], last |-> NoClientStep] : f \in BOOLEAN }

\* time passes, between calls and while a call awaits the network
ClockAdvance ==
    /\ fn.op = "fetchGvizText"
    /\ \E d \in {149999, 150000} :
          /\ fn.now + d <= MaxClock
          /\ fn' = [fn EXCEPT !.now = fn.now + d, !.before = fn.storage,
                              !.calls = Returned(fn.calls), !.last = NoClientStep]
    /\ UNCHANGED engineVars

\* the page is opened again, with or without ?fresh in its address; the calls of the page
\* left behind are gone
Reload ==
    /\ fn.op = "fetchGvizText"
    /\ fn' = [fn EXCEPT !.fresh = ~fn.fresh, !.before = fn.storage,
                        !.calls = [c \in ClientCalls |-> NoCall], !.last = NoClientStep]
    /\ UNCHANGED engineVars

\* fetchGvizText is called and runs up to its first await
FetchGviz ==
    /\ fn.op = "fetchGvizText"
    /\ \E c \in ClientCalls, key \in ClientKeys :
          /\ fn.calls[c].pc \in {"idle", "done"}
          /\ fn' = [fn EXCEPT !.before = fn.storage,
                              !.calls = [Returned(fn.calls) EXCEPT ![c] =
                                            [fetchGvizText(fn.storage, fn.now, fn.fresh, key)
                                                EXCEPT !.at = fn.now, !.seen = fn.storage[key]]],
                              !.last = [call |-> c, step |-> "lookup"]]
    /\ UNCHANGED engineVars

\* the fetch of a waiting call settles, with a Response or with a rejection
NetworkAnswers ==
    /\ fn.op = "fetchGvizText"
    /\ \E c \in ClientCalls, responded \in BOOLEAN :
          /\ fn.calls[c].pc = "awaiting"
          /\ fn' = [fn EXCEPT !.before = fn.storage,
                              !.calls = [Returned(fn.calls) EXCEPT ![c] =
                                            fetchGvizTextFetched(fn.calls[c], responded)],
                              !.last = [call |-> c, step |-> "response"]]
    /\ UNCHANGED engineVars

\* res.text() of a call settles, and the call runs to its end
TextArrives ==
    /\ fn.op = "fetchGvizText"
    /\ \E c \in ClientCalls, net \in NetAnswers, stored \in BOOLEAN :
          /\ fn.calls[c].pc = "reading"
          /\ LET r == fetchGvizTextResumed(fn.storage, fn.now, fn.fresh, fn.calls[c], net, stored)
             IN  fn' = [fn EXCEPT !.storage = r.storage, !.before = fn.storage,
                                  !.calls = [Returned(fn.calls) EXCEPT ![c] = r.call],
                                  !.last = [call |-> c, step |-> "answer"]]
    /\ UNCHANGED engineVars

NextClientCache == ClockAdvance \/ Reload \/ FetchGviz \/ NetworkAnswers \/ TextArrives

SpecClientCache == InitClientCache /\ [][NextClientCache]_vars

(***************************************************************************)
(* JSONP queries: gvizQuerySeries (SpecJsonp)                              *)
(***************************************************************************)
\* the queries in flight at once, each with its own cbName
JsonpQueries == {"q1", "q2"}

NoQuery == [started |-> FALSE, resp |-> "none", promise |-> "none", log |-> <<>>,
            executed |-> FALSE, errored |-> FALSE]

\* a faulty promise: a later resolve or reject overwrites the outcome
settleOverwriting(promise, outcome) == outcome

\* resolve / reject of a promise: only a pending promise is settled
settle(promise, outcome) == IF promise = "pending" THEN outcome ELSE promise

\* cleanup(): clearTimeout(timeout); delete window[cbName]; script.parentNode.removeChild(script)
cleanup(st, q) ==
    [st EXCEPT !.timers = st.timers \ {q}, !.window = st.window \ {q}, !.head = st.head \ {q}]

\* window[cbName] = (resp) => { cleanup(); if (!resp || !resp.table) reject(...); else resolve(resp.table) }
callback(st, q) ==
    LET c == cleanup(st, q)
    IN  [c EXCEPT !.queries[q].promise =
                      settle(st.queries[q].promise,
                             IF st.queries[q].resp = "table" THEN "resolved" ELSE "rejected: no table"),
                  !.queries[q].log = Append(st.queries[q].log, "response")]

\* script.onerror = () => { cleanup(); reject(new Error('Failed to load GViz script')) }
onerror(st, q) ==
    LET c == cleanup(st, q)
    IN  [c EXCEPT !.queries[q].promise = settle(st.queries[q].promise, "rejected: load failed"),
                  !.queries[q].log = Append(st.queries[q].log, "error")]

\* setTimeout(() => { cleanup(); reject(new Error('GViz JSONP timed out')) }, 15000)
ontimeout(st, q) ==
    LET c == cleanup(st, q)
    IN  [c EXCEPT !.queries[q].promise = settle(st.queries[q].promise, "rejected: timed out"),
                  !.queries[q].log = Append(st.queries[q].log, "timeout")]

InitJsonp ==
    /\ EngineAtRest
    /\ fn = [op |-> "gvizQuerySeries", queries |-> [q \in JsonpQueries |-> NoQuery],
             window |-> {}, timers |-> {}, head |-> {}]

\* gvizQuerySeries is called: the timer is armed, the callback installed, the script appended;
\* resp is what the script will pass to the callback if it loads
StartQuery ==
    /\ fn.op = "gvizQuerySeries"
    /\ \E q \in JsonpQueries, resp \in {"table", "no table", "null"} :
          /\ ~fn.queries[q].started
          /\ fn' = [fn EXCEPT !.queries[q] = [NoQuery EXCEPT !.started = TRUE, !.resp = resp,
                                                             !.promise = "pending"],
                              !.timers = fn.timers \cup {q},
                              !.window = fn.window \cup {q},
                              !.head = fn.head \cup {q}]
    /\ UNCHANGED engineVars

\* the script arrived and runs cbName(resp); a detached script still runs, and the call
\* fails inside the script when the callback is gone
ScriptRuns ==
    /\ fn.op = "gvizQuerySeries"
    /\ \E q \in JsonpQueries :
          /\ fn.queries[q].started /\ ~fn.queries[q].executed /\ ~fn.queries[q].errored
          /\ fn' = IF q \in fn.window
                   THEN [callback(fn, q) EXCEPT !.queries[q].executed = TRUE]
                   ELSE [fn EXCEPT !.queries[q].executed = TRUE]
    /\ UNCHANGED engineVars

\* the script failed to load; the element keeps its onerror handler when detached
ScriptError ==
    /\ fn.op = "gvizQuerySeries"
    /\ \E q \in JsonpQueries :
          /\ fn.queries[q].started /\ ~fn.queries[q].executed /\ ~fn.queries[q].errored
          /\ fn' = [onerror(fn, q) EXCEPT !.queries[q].errored = TRUE]
    /\ UNCHANGED engineVars

\* 15 s passed and the timer was not cleared
Timeout ==
    /\ fn.op = "gvizQuerySeries"
    /\ \E q \in JsonpQueries :
          /\ q \in fn.timers
          /\ fn' = ontimeout(fn, q)
    /\ UNCHANGED engineVars

NextJsonp == StartQuery \/ ScriptRuns \/ ScriptError \/ Timeout

SpecJsonp == InitJsonp /\ [][NextJsonp]_vars

(***************************************************************************)
(* Properties of the engine (specification Spec)                           *)
(***************************************************************************)
\* spec section 3: an option's dependency is satisfied when it has none or when the
\* selection of the group it names equals its dep_value, case-insensitively
DependencySatisfied(o, sel) ==
    \/ ~Truthy(o.dep_groupCanon)
    \/ /\ MapHas(sel, o.dep_groupCanon)
       /\ lc(MapGet(sel, o.dep_groupCanon)) = lc(o.dep_value)

\* the names of the options of group g that are visible and dependency-satisfied
ValidNames(cat, sel, g) ==
    {OptionsOf(cat, g)[i].option_name : i \in
        {j \in 1..Len(OptionsOf(cat, g)) :
            OptionsOf(cat, g)[j].visible /\ DependencySatisfied(OptionsOf(cat, g)[j], sel)}}

SelectionValid(cat, sel) == \A i \in 1..Len(sel) : sel[i].v \in ValidNames(cat, sel, sel[i].k)

HasDependency(cat, g) ==
    \E i \in 1..Len(OptionsOf(cat, g)) : Truthy(OptionsOf(cat, g)[i].dep_groupCanon)

\* the groups the options of g depend on
DependsOn(cat, g) ==
    {OptionsOf(cat, g)[i].dep_groupCanon : i \in
        {j \in 1..Len(OptionsOf(cat, g)) : Truthy(OptionsOf(cat, g)[j].dep_groupCanon)}}

\* every dependency points at a group none of whose options has a dependency
OneHop(cat) == \A g \in GroupKeys(cat) : \A h \in DependsOn(cat, g) : ~HasDependency(cat, h)

\* the prune and normalize passes of draw() run once more
SettleAgain(cat, sel) ==
    normalizeDependents(dependents(cat), pruneInvalidDependents(dependents(cat), sel))

\* C1 (as stated): once the page is initialised, and after every change, every entry of
\* the selection names an option of its group that is visible and whose dependency is
\* satisfied by the selection.
SelectionAlwaysValid == pc = "ready" => SelectionValid(optionsByCanon, selected)

\* C2 (as stated): on any catalog, running the settlement pass again on a selection a
\* settlement pass produced changes nothing.
SettleIdempotentAnyCatalog ==
    (pc = "ready" /\ page \in DrawPages) => SettleAgain(optionsByCanon, selected) = selected

\* C2 (amended): on a catalog whose dependencies are at most one hop deep, running the
\* settlement pass again on a selection a settlement pass produced changes nothing.
SettleIdempotentOneHop ==
    (pc = "ready" /\ page \in DrawPages /\ OneHop(optionsByCanon))
        => SettleAgain(optionsByCanon, selected) = selected

\* C2 witness: a one-hop catalog on which a change made the settlement pass add a
\* dependent entry
SettleAddedDependent ==
    /\ pc = "ready" /\ page \in DrawPages /\ OneHop(optionsByCanon)
    /\ event.kind = "change"
    /\ ~MapHas(event.before, "engraving") /\ MapGet(selected, "engraving") = "Custom"

\* C4: the stored and displayed total is the price calculator applied to the selection as
\* it stands after settlement (for the later scripts: regular and sale total alike).
TotalMatchesSelection ==
    pc = "ready" =>
        IF page \in DrawPages
        THEN total = calcPrice(product.base_price, selected, optionsByCanon)
        ELSE /\ total = recalcPrice(product, optionsByCanon, selected).regular
             /\ saleTotal = recalcPrice(product, optionsByCanon, selected).sale

\* C4 witness: a change after which settlement altered the selection beyond the user's
\* pick, so that the total of the unsettled selection differs from the one stored
TotalAfterSettlementChanged ==
    /\ pc = "ready" /\ page \in DrawPages /\ event.kind = "change"
    /\ selected # MapSet(event.before, event.k, event.v)
    /\ total # calcPrice(product.base_price, MapSet(event.before, event.k, event.v), optionsByCanon)

\* the worked example of C5: the initial settlement selects {Tone Ring: Brass} at the base
\* price, and changing Tone Ring to Bronze yields {Tone Ring: Bronze, Engraving: Custom}
\* at base + 275 within the same handling
WorkedExample ==
    /\ (sheet.options = ScenarioCatalog /\ event.kind = "load")
          => /\ selected = << [k |-> "tone ring", v |-> "Brass"] >>
             /\ total = product.base_price
    /\ (sheet.options = ScenarioCatalog /\ event.kind = "change"
            /\ event.k = "tone ring" /\ event.v = "Bronze")
          => /\ selected = << [k |-> "tone ring", v |-> "Bronze"],
                              [k |-> "engraving", v |-> "Custom"] >>
             /\ total = product.base_price + 275

\* a change of a provider group was handled, and every dependent group that had no valid
\* option under the selection before it and has one under the selection after it holds
\* an entry naming one of its valid options
DependentsDefaultedWithChange ==
    (event.kind = "change" /\ ~HasDependency(optionsByCanon, event.k)) =>
        \A g \in GroupKeys(optionsByCanon) :
            (/\ HasDependency(optionsByCanon, g)
             /\ ValidNames(optionsByCanon, event.before, g) = {}
             /\ ValidNames(optionsByCanon, selected, g) # {})
                => /\ MapHas(selected, g)
                   /\ MapGet(selected, g) \in ValidNames(optionsByCanon, selected, g)

\* C5 (as stated): the worked example gives {Tone Ring: Brass} at the base price and then
\* {Tone Ring: Bronze, Engraving: Custom} at base + 275; on any catalog a dependent group
\* whose options become valid with a provider change receives a default in the same
\* handling of that change.
ScenarioEndToEndAnyCatalog ==
    (pc = "ready" /\ page \in DrawPages) => (WorkedExample /\ DependentsDefaultedWithChange)

\* C5 (amended): the worked example as stated; the general sentence on a catalog whose
\* dependencies are at most one hop deep.
ScenarioEndToEnd ==
    (pc = "ready" /\ page \in DrawPages) =>
        /\ WorkedExample
        /\ OneHop(optionsByCanon) => DependentsDefaultedWithChange

\* C5 witness: the worked example after Tone Ring was changed to Bronze
ScenarioBronzeChosen ==
    /\ pc = "ready" /\ page \in DrawPages /\ sheet.options = ScenarioCatalog
    /\ event.kind = "change" /\ event.k = "tone ring" /\ event.v = "Bronze"
    /\ event.before = << [k |-> "tone ring", v |-> "Brass"] >>
    /\ total = 1275

\* C6 (as stated): on any catalog, after the settlement pass a dependent group with no
\* option that is visible and dependency-satisfied under the selection has no entry.
DependentPrunedAnyCatalog ==
    (pc = "ready" /\ page \in DrawPages) =>
        \A g \in GroupKeys(optionsByCanon) :
            (HasDependency(optionsByCanon, g) /\ ValidNames(optionsByCanon, selected, g) = {})
                => ~MapHas(selected, g)

\* C6 (amended): on a catalog whose dependencies are at most one hop deep, after the
\* settlement pass a dependent group with no option that is visible and
\* dependency-satisfied under the selection has no entry.
DependentPrunedOneHop ==
    (pc = "ready" /\ page \in DrawPages /\ OneHop(optionsByCanon)) =>
        \A g \in GroupKeys(optionsByCanon) :
            (HasDependency(optionsByCanon, g) /\ ValidNames(optionsByCanon, selected, g) = {})
                => ~MapHas(selected, g)

\* C6 witness: a one-hop catalog on which a change took the last valid option of
\* engraving away and the entry went with it
DependentEntryRemoved ==
    /\ pc = "ready" /\ page \in DrawPages /\ OneHop(optionsByCanon)
    /\ event.kind = "change"
    /\ MapHas(event.before, "engraving") /\ ~MapHas(selected, "engraving")
    /\ ValidNames(optionsByCanon, selected, "engraving") = {}

\* C17: on a catalog whose dependencies are at most one hop deep, after the settlement
\* pass every dependent group with a visible and dependency-satisfied option has an entry
\* naming one of them, and every dependent group without one has no entry.
DependentsSettledOneHop ==
    (pc = "ready" /\ page \in DrawPages /\ OneHop(optionsByCanon)) =>
        \A g \in GroupKeys(optionsByCanon) :
            HasDependency(optionsByCanon, g) =>
                IF ValidNames(optionsByCanon, selected, g) # {}
                THEN MapHas(selected, g) /\ MapGet(selected, g) \in ValidNames(optionsByCanon, selected, g)
                ELSE ~MapHas(selected, g)

\* C17 witness: a one-hop catalog on which a provider change left the old engraving entry
\* invalid while another engraving option became valid, and the entry now names that one
DependentEntryReplaced ==
    /\ pc = "ready" /\ page \in DrawPages /\ OneHop(optionsByCanon)
    /\ event.kind = "change" /\ event.k # "engraving"
    /\ MapHas(event.before, "engraving") /\ MapHas(selected, "engraving")
    /\ MapGet(event.before, "engraving") # MapGet(selected, "engraving")
    /\ MapGet(event.before, "engraving") \notin ValidNames(optionsByCanon, selected, "engraving")

\* the selection the handler of the last event held before its settlement: the provider
\* defaults at load, the picked option set at a change
SettleInput ==
    IF event.kind = "load" THEN providerDefaults(providers(optionsByCanon), event.before)
    ELSE MapSet(event.before, event.k, event.v)

\* the keys of a list of [key, options] entries
EntryKeys(list) == {list[i].key : i \in 1..Len(list)}

\* position of group g among the widgets on display (0 when it has none)
WidgetIndex(g) ==
    IF \E i \in 1..Len(rendered) : rendered[i].k = g
    THEN CHOOSE i \in 1..Len(rendered) : rendered[i].k = g
    ELSE 0

\* C14: a group is dependent exactly when one of its options carries a non-empty
\* dependency group key, otherwise provider; the catalog the classification is derived
\* from is the loaded one in every state after initialisation, whatever was selected, and
\* the widgets show it: every provider's widget precedes every dependent's.
ClassificationFixed ==
    (pc = "ready" /\ page \in DrawPages) =>
        /\ optionsByCanon = loadedCatalog(page, sheet)
        /\ EntryKeys(dependents(optionsByCanon)) =
              {g \in GroupKeys(optionsByCanon) : HasDependency(optionsByCanon, g)}
        /\ EntryKeys(providers(optionsByCanon)) =
              {g \in GroupKeys(optionsByCanon) : ~HasDependency(optionsByCanon, g)}
        /\ \A g, h \in GroupKeys(optionsByCanon) :
              (/\ ~HasDependency(optionsByCanon, g) /\ HasDependency(optionsByCanon, h)
               /\ WidgetIndex(g) > 0 /\ WidgetIndex(h) > 0)
                  => WidgetIndex(g) < WidgetIndex(h)

\* C14 witness: after a change, a group with one dependent and one free option is
\* listed before a provider in the sheet and is shown after it
MixedGroupShownAsDependent ==
    /\ pc = "ready" /\ page \in DrawPages /\ event.kind = "change"
    /\ optionsByCanon[1].key = "engraving"
    /\ \E i \in 1..Len(optionsByCanon[1].options) :
          ~Truthy(optionsByCanon[1].options[i].dep_groupCanon)
    /\ WidgetIndex("engraving") > WidgetIndex("tone ring")
    /\ WidgetIndex("tone ring") > 0

(***************************************************************************)
(* Properties of the pure functions (specification SpecPure)               *)
(***************************************************************************)
RECURSIVE SumOver(_, _)
\* the sum of f[x] over the finite set S
SumOver(S, f) ==
    IF S = {} THEN 0
    ELSE LET x == CHOOSE y \in S : TRUE IN f[x] + SumOver(S \ {x}, f)

\* the option a selection entry names, for an entry whose option is found in its group
OptionNamed(cat, e) == FindNamed(OptionsOf(cat, e.k), e.v)

FoundEntries(cat, sel) == {i \in 1..Len(sel) : SomeNamed(OptionsOf(cat, sel[i].k), sel[i].v)}

\* what one found option adds on a base, by the rule of spec section 4.4
DeltaOn(base, o) ==
    CASE o.price_type \in {"add", "abs"} -> o.price_delta
      [] o.price_type = "pct" -> (base * o.price_delta) \div 100
      [] OTHER -> 0

\* the same for the later scripts, whose types are percent and flat
FlatOrPercentOn(base, o) ==
    IF o.price_type = "percent" THEN (base * o.price_delta) \div 100 ELSE o.price_delta

\* C3: the price calculator returns base plus, for every selection entry whose option is
\* found in its group, delta for add and abs and base*delta/100 for pct (percent in the
\* later scripts), every percentage being taken of the original base.
PriceIsBasePlusDeltas ==
    /\ (fn.op = "calcPrice" /\ fn.done) =>
          fn.out = fn.base + SumOver(FoundEntries(fn.cat, fn.sel),
                      [i \in FoundEntries(fn.cat, fn.sel) |-> DeltaOn(fn.base, OptionNamed(fn.cat, fn.sel[i]))])
    /\ (fn.op = "recalcPrice" /\ fn.done) =>
          fn.out.regular = fn.base + SumOver(FoundEntries(fn.cat, fn.sel),
                      [i \in FoundEntries(fn.cat, fn.sel) |-> FlatOrPercentOn(fn.base, OptionNamed(fn.cat, fn.sel[i]))])

\* C3 witness: base 1000 with pct +10 and pct +5 selected gives 1150
TwoPercentagesPriced ==
    /\ fn.op = "calcPrice" /\ fn.done /\ fn.base = 1000
    /\ fn.cat = PriceCatalog("pct", 10, "pct", 5)
    /\ fn.sel = SelOf("Bronze", "Vine")
    /\ fn.out = 1150

\* C7: a provider group whose selected option is among its visible options keeps that
\* selection through the provider-defaults loop.
ProviderSelectionKept ==
    (fn.op = "providerDefaults" /\ fn.done) =>
        \A g \in GroupKeys(fn.cat) :
            (/\ ~HasDependency(fn.cat, g)
             /\ MapHas(fn.sel, g)
             /\ \E i \in 1..Len(OptionsOf(fn.cat, g)) :
                   OptionsOf(fn.cat, g)[i].visible /\ OptionsOf(fn.cat, g)[i].option_name = MapGet(fn.sel, g))
                => MapGet(fn.out, g) = MapGet(fn.sel, g)

\* C7 witness: Bronze was selected, Brass is the flagged default and sorts first, both
\* are visible, and Bronze is still selected after the loop
NonDefaultSelectionKept ==
    /\ fn.op = "providerDefaults" /\ fn.done
    /\ fn.cat = <<ToneRing(1, TRUE, TRUE, 2)>>
    /\ MapGet(fn.sel, "tone ring") = "Bronze"
    /\ MapGet(fn.out, "tone ring") = "Bronze"

\* C16: after the provider-defaults loop a provider group none of whose options is
\* visible has no entry in the selection, whether or not it had one before.
InertProviderHasNoEntry ==
    (fn.op = "providerDefaults" /\ fn.done) =>
        \A g \in GroupKeys(fn.cat) :
            (/\ ~HasDependency(fn.cat, g)
             /\ \A i \in 1..Len(OptionsOf(fn.cat, g)) : ~OptionsOf(fn.cat, g)[i].visible)
                => ~MapHas(fn.out, g)

\* C16 witness: both tone ring options are hidden, Bronze was selected, and the entry is
\* gone after the loop while the inlay entry is still there
StaleProviderEntryRemoved ==
    /\ fn.op = "providerDefaults" /\ fn.done
    /\ fn.cat = <<ToneRing(1, FALSE, FALSE, 2), Inlay("provider")>>
    /\ MapGet(fn.sel, "tone ring") = "Bronze"
    /\ ~MapHas(fn.out, "tone ring")
    /\ MapHas(fn.out, "inlay")

\* C8 (as stated): with an active sale price the sale total is the sale base plus the
\* deltas of the same selected options by the same rule (flat: delta, percent:
\* saleBase*delta/100), for every selection and every signed delta.
SaleTotalDuplicatesDeltas ==
    (fn.op = "recalcPrice" /\ fn.done /\ fn.active) =>
        fn.out.sale = fn.sale + SumOver(FoundEntries(fn.cat, fn.sel),
                      [i \in FoundEntries(fn.cat, fn.sel) |-> FlatOrPercentOn(fn.sale, OptionNamed(fn.cat, fn.sel[i]))])

(***************************************************************************)
(* Properties of initialisation (specification SpecInit)                   *)
(***************************************************************************)
\* C9 (as stated): when the Products answer holds no row for the requested key the
\* product page's initialiser ends in its catch block, with no product record stored and
\* no option rendered or priced.
MissingRowSignalled ==
    (pc # "loading" /\ page # "customBuilder" /\ sheet.ok /\ ~sheet.hasRow) =>
        /\ pc = "failed"
        /\ ~product.loaded
        /\ rendered = <<>>
        /\ selected = <<>>

\* C10 (as stated): after a failed initialisation the price display is cleared or shows
\* an unavailable indicator, the option container is cleared or shows a message, and no
\* product title is left.
FailureLeavesNothingBehind ==
    pc = "failed" =>
        /\ dom.price \in {"empty", "unavailable"}
        /\ dom.options \in {"empty", "message"}
        /\ dom.title # "product"

(***************************************************************************)
(* Properties of the string functions (specification SpecStrings)          *)
(***************************************************************************)
\* C11: canon applied to its own result returns that result, for both canon functions.
CanonIdempotent ==
    (fn.op = "canon" /\ fn.done) =>
        /\ canon(Str(fn.outA)) = fn.outA
        /\ canonFlat(Str(fn.outB)) = fn.outB

\* C11 witness: a string that canon changed in every step (non-breaking space, full-width
\* letter, punctuation, upper case) has been canonicalized
CanonChangedInput ==
    /\ fn.op = "canon" /\ fn.done
    /\ fn.a = Str(<<"nbsp", "FWA", "-">>)
    /\ fn.outA = <<"a">>

\* what is left of a string once blanks and punctuation are removed and case is folded
Squeezed(chars) == lowerChars(SelectSeq(chars, LAMBDA c : c \in AsciiAlnum))

\* C12 (as stated): two inputs that differ only by spacing, punctuation or case have the
\* same canon; in particular canon("Head  Stock") = canon("headstock").
CanonEquivalence ==
    (fn.op = "canonPair" /\ fn.done /\ Squeezed(fn.a.chars) = Squeezed(fn.b.chars))
        => fn.outA = fn.outB

NonEmptyEntries(sel) == SelectSeq(sel, LAMBDA e : Truthy(e.v))

\* the value part_004 reports for its Name Block group: a choice of Custom Name is
\* followed by the text that was in the text field, or by a note that there was none
NameBlockValue(v, text) ==
    CASE v = "Custom Name" /\ text = "Abc" -> "Custom Name (\"Abc\")"
      [] v = "Custom Name" /\ text = ""    -> "Custom Name (no text entered)"
      [] OTHER                             -> v

NameTextSent ==
    /\ event.kind = "read" /\ page = "part_004"
    /\ selected = << [k |-> "tone ring", v |-> "Bronze"], [k |-> "name block", v |-> "Custom Name"] >>
    /\ fn.selections = << [k |-> "Tone Ring", v |-> "Bronze"],
                          [k |-> "Name Block", v |-> "Custom Name (\"Abc\")"] >>
    /\ dom.nameText = ""

VisibleIndices(list) == {i \in 1..Len(list) : list[i].visible}

\* i comes before j in sort order: lower rank, ties broken by input order
SortsBefore(list, i, j) ==
    list[i].sort < list[j].sort \/ (list[i].sort = list[j].sort /\ i < j)

\* the first index of S in sort order
FirstInSortOrder(list, S) == CHOOSE i \in S : \A j \in S \ {i} : SortsBefore(list, i, j)

\* the choice spec section 4.3 prescribes over the visible options of a group
PrescribedChoice(list, current) ==
    LET V == VisibleIndices(list)
        D == {i \in V : list[i].is_default}
    IN  IF V = {} THEN NULL
        ELSE IF \E i \in V : list[i].option_name = current THEN current
        ELSE IF D # {} THEN list[FirstInSortOrder(list, D)].option_name
        ELSE list[FirstInSortOrder(list, V)].option_name

\* C15 (as stated): over the valid options of a group the choice is the current selection
\* if it names one of them, else the first flagged is_default, else the first in sort
\* order, and no choice when there is none; for chooseDefault and for the re-default of
\* updateOptionVisibility alike.
ChoiceFollowsPriority ==
    (fn.op = "chooseDefault" /\ fn.done) =>
        /\ fn.outA = PrescribedChoice(fn.list, fn.current)
        /\ fn.outB = PrescribedChoice(fn.list, fn.current)

\* the test spec section 4.3 prescribes: no dependency group, or the cleaned lower-cased
\* selected value equals the cleaned lower-cased required value
PrescribedDependencyTest(o, sel) ==
    \/ ~Truthy(o.dep_groupCanon)
    \/ lc(MapGet(sel, o.dep_groupCanon)) = lc(o.dep_value)

\* C18 (as stated): the dependency test is true exactly when the option declares no
\* dependency group or the cleaned, lower-cased selected and required values are equal,
\* for present, absent and empty values alike.
DependencyTestExact ==
    (fn.op = "dependencyOk" /\ fn.done) =>
        /\ fn.outA = PrescribedDependencyTest(fn.option, fn.sel)
        /\ fn.outB = PrescribedDependencyTest(fn.option, fn.sel)

(***************************************************************************)
(* Properties of two runs compared (specification SpecTwin)                *)
(***************************************************************************)
\* two maps hold the same entries
SameEntries(a, b) ==
    /\ MapKeys(a) = MapKeys(b)
    /\ \A k \in MapKeys(a) : MapGet(a, k) = MapGet(b, k)

(***************************************************************************)
(* Properties of draw() statement by statement (specification SpecDraw)    *)
(***************************************************************************)
\* the functions a view has run since its draw() was entered
SinceDraw(w) ==
    LET d == CHOOSE i \in 1..Len(w.calls) : w.calls[i] = "draw"
    IN  SubSeq(w.calls, d + 1, Len(w.calls))

\* what the settlement pass makes of the selection draw() was entered with
Settled(w) ==
    normalizeDependents(dependents(optionsByCanon),
                        pruneInvalidDependents(dependents(optionsByCanon), w.atDraw))

\* C19: draw() is entered once after the provider defaults of renderOptions and once in
\* the handling of every user change; each time it runs pruneInvalidDependents and then
\* normalizeDependents, once each and in that order, before anything is drawn: at every
\* statement of a view the functions run and the selection they have produced are those
\* of that order.
SettleRunsPruneThenNormalize ==
    fn.op = "draw" =>
        \A v \in Views :
            LET w == fn.views[v]
            IN  w.pc # "loading" =>
                  /\ w.calls[1] \in {"renderOptions", "change"}
                  /\ Cardinality({i \in 1..Len(w.calls) : w.calls[i] = "draw"}) = 1
                  /\ w.pc = "prune" => /\ SinceDraw(w) = <<>>
                                       /\ w.selected = w.atDraw
                  /\ w.pc = "normalize"
                        => /\ SinceDraw(w) = <<"pruneInvalidDependents">>
                           /\ w.selected = pruneInvalidDependents(dependents(optionsByCanon), w.atDraw)
                  /\ w.pc \in {"render", "idle"}
                        => /\ SinceDraw(w) = <<"pruneInvalidDependents", "normalizeDependents">>
                           /\ w.selected = Settled(w)
                  /\ w.pc = "idle" => /\ w.host = drawWidgets(optionsByCanon, w.selected)
                                      /\ w.total = calcPrice(product.base_price, w.selected, optionsByCanon)

\* C19 witness: a view has handled a provider change, the handler's own prune ahead of
\* draw(); the pass of draw() changed the selection, the two functions in the opposite
\* order would have left another selection, and so would the pass run a second time
SettleAfterHandlerPrune ==
    /\ fn.op = "draw"
    /\ \E v \in Views :
          LET w    == fn.views[v]
              deps == dependents(optionsByCanon)
          IN  /\ w.pc = "idle"
              /\ w.calls = <<"change", "pruneInvalidDependents", "draw",
                             "pruneInvalidDependents", "normalizeDependents">>
              /\ w.selected # w.atDraw
              /\ pruneInvalidDependents(deps, normalizeDependents(deps, w.atDraw)) # w.selected
              /\ normalizeDependents(deps, pruneInvalidDependents(deps, w.selected)) # w.selected

WidgetOptions(g) == IF WidgetIndex(g) = 0 THEN <<>> ELSE rendered[WidgetIndex(g)].opts

\* position of the option called name in the loaded list of group g
RowOf(cat, g, name) == CHOOSE i \in 1..Len(OptionsOf(cat, g)) : OptionsOf(cat, g)[i].option_name = name

\* every widget offers exactly the visible, dependency-satisfied options of its group in
\* ascending sort order (ties in input order), and a group without one has no widget
WidgetsAreValidOptions ==
    \A g \in GroupKeys(optionsByCanon) :
        LET w == WidgetOptions(g)
        IN  /\ {w[i] : i \in 1..Len(w)} = ValidNames(optionsByCanon, selected, g)
            /\ \A i, j \in 1..Len(w) :
                  i < j => SortsBefore(OptionsOf(optionsByCanon, g),
                                       RowOf(optionsByCanon, g, w[i]), RowOf(optionsByCanon, g, w[j]))
            /\ ValidNames(optionsByCanon, selected, g) = {} => WidgetIndex(g) = 0

\* every entry of the selection names an option its group's widget offers
SelectionOnDisplay ==
    \A i \in 1..Len(selected) :
        \E j \in 1..Len(WidgetOptions(selected[i].k)) : WidgetOptions(selected[i].k)[j] = selected[i].v

\* C21 (as stated): on any catalog, after settlement each widget offers exactly the
\* visible, dependency-satisfied options of its group in ascending sort order, every
\* selection entry names an option its widget offers, and a group without such options
\* has no widget.
RenderedMatchesSelectionAnyCatalog ==
    (pc = "ready" /\ page \in DrawPages) => (WidgetsAreValidOptions /\ SelectionOnDisplay)

\* C21 (amended): on any catalog, after settlement each widget offers exactly the
\* visible, dependency-satisfied options of its group in ascending sort order and a group
\* without such options has no widget; on a catalog whose dependencies are at most one
\* hop deep every selection entry names an option its widget offers.
RenderedMatchesSelectionOneHop ==
    (pc = "ready" /\ page \in DrawPages) =>
        /\ WidgetsAreValidOptions
        /\ OneHop(optionsByCanon) => SelectionOnDisplay

\* C21 witness: a one-hop catalog after a change: the tone ring widget offers Bronze
\* (sort 0) ahead of Brass (sort 1) although the sheet lists Brass first, the selected
\* Brass is among them, and engraving, with no valid option left, has no widget
SortedWidgetAndHiddenGroup ==
    /\ pc = "ready" /\ page \in DrawPages /\ OneHop(optionsByCanon)
    /\ event.kind = "change"
    /\ WidgetOptions("tone ring") = <<"Bronze", "Brass">>
    /\ MapGet(selected, "tone ring") = "Brass"
    /\ OptionsOf(optionsByCanon, "engraving") # <<>>
    /\ WidgetIndex("engraving") = 0

(***************************************************************************)
(* Further properties of the price calculators (SpecFloat, SpecPure)       *)
(***************************************************************************)
\* the numbers calcPrice adds to the base for the entries of the selection that name an
\* option
Amounts(f) ==
    { amount(f.base, FindNamed(OptionsOf(f.cat, f.sel[i].k), f.sel[i].v)) :
        i \in { j \in 1..Len(f.sel) : SomeNamed(OptionsOf(f.cat, f.sel[j].k), f.sel[j].v) } }

\* C22 (as stated): for integer bases and deltas the total does not depend on the order
\* in which the entries were inserted into the selection: the same entries in the
\* opposite order give the same price.
TotalIgnoresInsertionOrder ==
    (fn.op = "calcPriceFloat" /\ fn.done) => fn.out = fn.swapped

\* C22 (amended): for integer bases and deltas whose percentage amounts
\* base * (delta / 100), as calcPrice computes them, are whole numbers, the same entries
\* in the opposite order give the same price.
TotalOfWholeAmountsIgnoresOrder ==
    (fn.op = "calcPriceFloat" /\ fn.done /\ \A a \in Amounts(fn) : Whole(a))
        => fn.out = fn.swapped

\* C22 witness: Bronze (abs +150) and Vine (pct +10) on base 1000 are both selected and
\* priced at 1250 in either order, and the selection read backwards is a different
\* sequence
TwoEntriesPricedEitherWay ==
    /\ fn.op = "calcPriceFloat" /\ fn.done /\ fn.base = 1000
    /\ fn.cat = PriceCatalog("abs", 150, "pct", 10)
    /\ fn.sel = SelOf("Bronze", "Vine")
    /\ Reverse(fn.sel) # fn.sel
    /\ \A a \in Amounts(fn) : Whole(a)
    /\ fn.out = numberOf(1250)
    /\ fn.swapped = numberOf(1250)

\* on the bases and deltas of SpecPure every amount is a whole number and the total in
\* numbers is the total calcPrice gives in integers
IntegerPriceIsExact ==
    (/\ fn.op = "calcPriceFloat" /\ fn.done
     /\ fn.base \in CalcBases
     /\ \A i \in 1..Len(fn.cat) : \A j \in 1..Len(fn.cat[i].options) :
           fn.cat[i].options[j].price_delta \in CalcDeltas \cup {0})
        => /\ \A a \in Amounts(fn) : Whole(a)
           /\ fn.out = numberOf(calcPrice(fn.base, fn.sel, fn.cat))

\* the entries of a selection whose group is in the catalog and whose option name is,
\* letter for letter, the name of an option of that group
LiveEntries(cat, sel) ==
    SelectSeq(sel, LAMBDA e : \E i \in 1..Len(OptionsOf(cat, e.k)) : OptionsOf(cat, e.k)[i].option_name = e.v)

\* C23: an entry whose group is not in the catalog, or whose option name is no option of
\* the group by exact name, is skipped by the price calculator: the total is a number
\* and equals the total of the selection without such entries.
StaleEntriesSkipped ==
    /\ (fn.op = "calcPrice" /\ fn.done) =>
          /\ fn.out \in Int
          /\ fn.out = calcPrice(fn.base, LiveEntries(fn.cat, fn.sel), fn.cat)
    /\ (fn.op = "recalcPrice" /\ fn.done) =>
          /\ fn.out.regular \in Int /\ fn.out.sale \in Int
          /\ fn.out = recalcPrice(PureProduct(fn), fn.cat, LiveEntries(fn.cat, fn.sel))

\* C23 witness: the selection names a group the catalog lacks, then BRONZE where the
\* option is spelled Bronze, then Vine (add +150); only Vine is priced: 1000 + 150
OnlyLiveEntryPriced ==
    /\ fn.op = "calcPrice" /\ fn.done /\ fn.base = 1000
    /\ fn.cat = PriceCatalog("add", 150, "add", 150)
    /\ fn.sel = StaleEntry \o SelOf("BRONZE", "Vine")
    /\ fn.out = 1150

(***************************************************************************)
(* Properties of the loaders (specification SpecLoad)                      *)
(***************************************************************************)
\* the last raw row of the input and, when it was not skipped, the option stored for it
LastRow == fn.rows[Len(fn.rows)]

LastStored ==
    LET list == OptionsOf(fn.out.optionsByCanon, groupCanonOf(fn.script, LastRow))
    IN  list[Len(list)]

LastLoaded == fn.op = "loadData" /\ fn.done /\ ~rowSkipped(fn.script, LastRow)

\* the catalog with its price deltas as integers (for rows whose delta is a number)
WithIntegerDeltas(cat) ==
    [i \in 1..Len(cat) |->
        [key |-> cat[i].key,
         options |-> [j \in 1..Len(cat[i].options) |->
                         [cat[i].options[j] EXCEPT !.price_delta = @.n]]]]

\* the total on base 1000 when the option stored for the last row is the only selection
TotalWithLastSelected ==
    LET cat == WithIntegerDeltas(fn.out.optionsByCanon)
        sel == << [k |-> groupCanonOf(fn.script, LastRow), v |-> LastStored.option_name] >>
    IN  IF fn.script = "part_007"
        THEN recalcPrice([loaded |-> TRUE, model_id |-> "LB-3", base_price |-> 1000,
                          sale_price |-> 0, sale_active |-> FALSE], cat, sel).regular
        ELSE calcPrice(1000, sel, cat)

\* the last row is the only row of its group and name, so that selecting it prices it
LastRowAlone ==
    \A i \in 1..(Len(fn.rows) - 1) :
        \/ groupCanonOf(fn.script, fn.rows[i]) # groupCanonOf(fn.script, LastRow)
        \/ cleanStr(fn.rows[i].option_name) # cleanStr(LastRow.option_name)

\* C24 (as stated): an option whose price-type cell is absent or names no kind is stored
\* with the flat-addition kind (add, or flat in the later scripts), and when it is
\* selected its delta is added to the total as a flat amount.
UnknownTypeBecomesFlat ==
    (LastLoaded /\ LastRow.price_type \in {NULL, "", "bogus"} /\ ~LastStored.price_delta.nan /\ LastRowAlone) =>
        /\ LastStored.price_type \in {"add", "flat"}
        /\ TotalWithLastSelected = 1000 + LastStored.price_delta.n

\* spec section 4.1: boolean true, the string "true" in any letter case, or the number 1
PrescribedBoolean(c) ==
    \/ c = CBool(TRUE)
    \/ (c.t = "str" /\ c.s \in {"true", "TRUE", "True"})
    \/ c = CNum(1)

\* C25 (as stated): the is_default and visible cells of an option row are stored as true
\* exactly for boolean true, the string "true" in any letter case, or the number 1, and
\* as false for every other present value.
BooleanCellsCoerced ==
    LastLoaded =>
        /\ LastRow.is_default # CNull => LastStored.is_default = PrescribedBoolean(LastRow.is_default)
        /\ LastRow.visible # CNull => LastStored.visible = PrescribedBoolean(LastRow.visible)

\* the total is not-a-number when the option stored for the last row is selected: its
\* delta is NaN and its price type is one the calculator of the script adds
TotalIsNaNWithLastSelected ==
    /\ LastStored.price_delta.nan
    /\ (fn.script = "part_007" \/ LastStored.price_type \in {"add", "pct", "abs"})

\* C26 (as stated): a price-delta cell that does not parse as a number is stored as 0,
\* the row is loaded all the same, and no stored delta, and so no total, is not-a-number.
UnparsedDeltaBecomesZero ==
    LastLoaded =>
        /\ jsNumber(LastRow.price_delta).nan => LastStored.price_delta = Num(0)
        /\ ~LastStored.price_delta.nan
        /\ ~TotalIsNaNWithLastSelected

\* the rows the loader keeps, and those among them that fall under a canonical key
KeptRows == {i \in 1..Len(fn.rows) : ~rowSkipped(fn.script, fn.rows[i])}

RowsOfKey(key) == {i \in KeptRows : groupCanonOf(fn.script, fn.rows[i]) = key}

FirstRowOfKey(key) == CHOOSE i \in RowsOfKey(key) : \A j \in RowsOfKey(key) : i <= j

\* the rows of a canonical key whose group cell is not empty after cleaning
SpelledRowsOfKey(key) == {i \in RowsOfKey(key) : cleanChars(fn.rows[i].group) # <<>>}

\* the characters of a cell as the sheet holds them
rawChars(v) == IF v.null THEN <<>> ELSE v.chars

\* every loader keeps, for every canonical key, one group holding an option per row of
\* that key
OneGroupPerKey ==
    /\ GroupKeys(fn.out.optionsByCanon) = {groupCanonOf(fn.script, fn.rows[i]) : i \in KeptRows}
    /\ MapKeys(fn.out.groupNameMap) = GroupKeys(fn.out.optionsByCanon)
    /\ \A key \in GroupKeys(fn.out.optionsByCanon) :
          Len(OptionsOf(fn.out.optionsByCanon, key)) = Cardinality(RowsOfKey(key))

\* C27 (as stated): the loader keeps one group per canonical key, and the display name of
\* the group is the raw spelling of the first row seen for that key, whatever the later
\* rows spell.
DisplayNameIsRawFirstSpelling ==
    (fn.op = "loadData" /\ fn.done) =>
        /\ OneGroupPerKey
        /\ \A key \in GroupKeys(fn.out.optionsByCanon) :
              MapGet(fn.out.groupNameMap, key) = rawChars(fn.rows[FirstRowOfKey(key)].group)

\* C27 (amended): the loader keeps one group per canonical key, and the display name of
\* the group is the cleaned spelling (non-breaking spaces replaced, then trimmed) of the
\* first row seen for that key whose cleaned spelling is not empty, whatever the later
\* rows spell; it is empty when no row of the key has one.
DisplayNameIsFirstSpelling ==
    (fn.op = "loadData" /\ fn.done) =>
        /\ OneGroupPerKey
        /\ \A key \in GroupKeys(fn.out.optionsByCanon) :
              MapGet(fn.out.groupNameMap, key) =
                  IF SpelledRowsOfKey(key) = {} THEN <<>>
                  ELSE cleanChars(fn.rows[CHOOSE i \in SpelledRowsOfKey(key) :
                                             \A j \in SpelledRowsOfKey(key) : i <= j].group)

\* C27 witness: the rows spell the group " A a" and then "A  A"; both options are in the
\* one group "a a", displayed as "A a"
SecondSpellingJoinsGroup ==
    /\ fn.op = "loadData" /\ fn.done /\ fn.script = "productInfo"
    /\ Len(fn.rows) = 2
    /\ fn.rows[1].group = Str(<<" ", "A", " ", "a">>)
    /\ fn.rows[2].group = Str(<<"A", " ", " ", "A">>)
    /\ Len(fn.out.optionsByCanon) = 1
    /\ Len(fn.out.optionsByCanon[1].options) = 2
    /\ fn.out.groupNameMap = << [k |-> <<"a", " ", "a">>, v |-> <<"A", " ", "a">>] >>

\* the rows whose group name and option name are both non-empty after cleaning
NamedRows ==
    {i \in 1..Len(fn.rows) : cleanChars(fn.rows[i].group) # <<>> /\ cleanStr(fn.rows[i].option_name) # ""}

\* C28 (as stated): a row whose group name or option name is empty after cleaning is
\* skipped by every loader: the catalog holds one option per remaining row and only the
\* groups of the remaining rows.
EmptyNamedRowsSkipped ==
    (fn.op = "loadData" /\ fn.done) =>
        /\ GroupKeys(fn.out.optionsByCanon) = {groupCanonOf(fn.script, fn.rows[i]) : i \in NamedRows}
        /\ SumOver(1..Len(fn.out.optionsByCanon),
                   [i \in 1..Len(fn.out.optionsByCanon) |-> Len(fn.out.optionsByCanon[i].options)])
              = Cardinality(NamedRows)

(***************************************************************************)
(* Properties of the option order (specification SpecChoice)               *)
(***************************************************************************)
\* names lists the options of list by ascending sort rank, equal ranks in input order
StablySorted(list, names) ==
    /\ Len(names) = Len(list)
    /\ {names[i] : i \in 1..Len(names)} = {list[i].option_name : i \in 1..Len(list)}
    /\ \A i, j \in 1..Len(names) :
          i < j => SortsBefore(list,
                               CHOOSE a \in 1..Len(list) : list[a].option_name = names[i],
                               CHOOSE b \in 1..Len(list) : list[b].option_name = names[j])

\* C29 (as stated): in each script the list a group is defaulted and rendered from is in
\* ascending sort rank with equal ranks in input order, and a group without a selection
\* starts with its flagged default or else the valid option of least rank, earliest in
\* the input among ties.
ListsStablySorted ==
    (fn.op = "sort" /\ fn.done) =>
        /\ StablySorted(fn.list, fn.order.info)
        /\ StablySorted(fn.list, fn.order.builder)
        /\ StablySorted(fn.list, fn.order.part007)
        /\ fn.fallback.info = PrescribedChoice(fn.list, NULL)
        /\ fn.fallback.builder = PrescribedChoice(fn.list, NULL)
        /\ fn.fallback.part007 = PrescribedChoice(fn.list, NULL)

(***************************************************************************)
(* Properties of the sale price (specification SpecLoad)                   *)
(***************************************************************************)
\* C30: the sale is active exactly when the sale-active cell is true, "true" or 1 and the
\* sale price is greater than 0; the sale total is shown, next to the struck regular
\* total, exactly when the sale is active and the computed sale total is greater than 0,
\* and otherwise the regular total is shown alone.
SaleShownOnlyWhenActive ==
    (fn.op = "loadProduct" /\ fn.done) =>
        /\ fn.out.product.sale_active =
              (PrescribedBoolean(fn.activeCell) /\ fn.saleCell.t = "num" /\ fn.saleCell.n > 0)
        /\ fn.out.shown.struck = (fn.out.product.sale_active /\ fn.out.totals.sale > 0)
        /\ fn.out.shown.original = fn.out.totals.regular
        /\ fn.out.shown.sale = IF fn.out.shown.struck THEN fn.out.totals.sale ELSE 0

\* C30 witness: the sale is active at 100; on the loaded page the user picked Bronze
\* (flat -100), the computed sale total is 0 and the regular total 900 is shown alone
ActiveSaleNotShown ==
    /\ fn.op = "loadProduct" /\ fn.done /\ fn.changed
    /\ MapGet(fn.out.selected, "tone ring") = "Bronze"
    /\ fn.activeCell = CStr("TRUE") /\ fn.saleCell = CNum(100)
    /\ fn.out.product.sale_active
    /\ fn.out.totals = [regular |-> 900, sale |-> 0]
    /\ fn.out.shown = [original |-> 900, sale |-> 0, struck |-> FALSE]

(***************************************************************************)
(* Properties of the product's visible cell (specification SpecInit)       *)
(***************************************************************************)
\* the page state part_004 is in after initialising on a sheet without the product's row
MissingProductState ==
    initPage("part_004", [sheet EXCEPT !.hasRow = FALSE], StaticDom, <<>>)

\* C31: on part_004 a product whose visible cell is blank is loaded as visible; a product
\* whose visible cell is present and not true, "true" or 1 is refused: the load fails,
\* nothing is rendered or priced and the page is in the state of a missing product.
InvisibleProductUnavailable ==
    (page = "part_004" /\ pc # "loading" /\ sheet.ok /\ sheet.hasRow) =>
        /\ sheet.row.visible = CNull => (pc = "ready" /\ product.loaded)
        /\ (sheet.row.visible # CNull /\ ~PrescribedBoolean(sheet.row.visible)) =>
              /\ pc = "failed"
              /\ rendered = <<>> /\ total = 0 /\ saleTotal = 0
              /\ product = NoProduct /\ optionsByCanon = <<>>
              /\ dom = [title |-> "unavailable", price |-> "empty", options |-> "message", inputs |-> {}, nameText |-> "", sentText |-> ""]
              /\ MissingProductState =
                    [pc |-> pc, product |-> product, optionsByCanon |-> optionsByCanon,
                     selected |-> selected, total |-> total, saleTotal |-> saleTotal,
                     rendered |-> rendered, dom |-> dom]

\* C31 witness: part_004 refused a product whose visible cell holds the number 0
ProductWithZeroVisibleRefused ==
    /\ page = "part_004" /\ pc = "failed" /\ sheet.ok /\ sheet.hasRow
    /\ sheet.row.visible = CNum(0)
    /\ dom.options = "message"

(***************************************************************************)
(* Properties of the data sources (specification SpecSources)              *)
(***************************************************************************)
\* a source yields a table when its fetch and its read succeed and its body holds one
YieldsTable(r) == r.net = "ok" /\ r.read = "ok" /\ r.body.json \in {"table", "rowsArray"}

\* the pass over a source has ended without a table
Failed(r) == (r.net \notin {"none", "ok"} \/ (r.net = "ok" /\ r.read # "none")) /\ ~YieldsTable(r)

\* C32: the sources are tried in the order PHP cache, static JSON, Google; a source is
\* tried only after every earlier one failed; the first that yields a table wins and
\* none is tried after it; when all three fail the last source's error is thrown.
SourcesTriedInOrder ==
    fn.op = "gvizQuery" =>
        \A q \in DOMAIN fn.queries :
            LET st == fn.queries[q]
            IN  /\ Len(st.tried) <= 3
                /\ \A i \in 1..Len(st.tried) : st.tried[i] = <<"php", "static", "google">>[i]
                /\ \A i \in 1..Len(st.tried) : i < Len(st.tried) => Failed(st.answers[st.tried[i]])
                /\ \A s \in {"php", "static", "google"} :
                      (\A i \in 1..Len(st.tried) : st.tried[i] # s) => st.answers[s].net = "none"
                /\ st.result = "table" =>
                      /\ st.tried # <<>>
                      /\ st.from = st.tried[Len(st.tried)]
                      /\ YieldsTable(st.answers[st.from])
                /\ st.result = "pending" =>
                      (st.stage = "idle" \/ ~Failed(st.answers[st.tried[Len(st.tried)]]))
                /\ st.result = "thrown" =>
                      /\ st.tried = <<"php", "static", "google">>
                      /\ \A i \in 1..3 : Failed(st.answers[st.tried[i]])
                      /\ st.thrown.src = "google"

\* C32 witness: the PHP cache timed out, the static file held no table, Google answered
\* while the other query was still waiting for a body
ThirdSourceWins ==
    /\ fn.op = "gvizQuery"
    /\ fn.queries["Products"].result = "table" /\ fn.queries["Products"].from = "google"
    /\ fn.queries["Products"].answers.php.net = "timeout"
    /\ fn.queries["Products"].answers.static = [net |-> "ok", read |-> "ok", body |-> Body("bracket", "emptyArray")]
    /\ fn.queries["Products"].lastErr = [src |-> "static", what |-> "Unrecognized"]
    /\ fn.queries["Options"].stage = "body"

(***************************************************************************)
(* Properties of the cached proxy (specification SpecProxy)                *)
(***************************************************************************)
\* the request that took the last step, and the key of its cache file
LastRequest == fn.reqs[fn.last.worker]

LastKey == cacheKey(LastRequest.sheet, LastRequest.tq)

\* the last step was taken by a request that names a sheet
SheetRequested == fn.op = "gviz.php" /\ fn.last.step # "none" /\ LastRequest.sheet # ""

\* when the request arrived its cache file was there and not older than 120 s
WasFresh == LastRequest.seen.exists /\ LastRequest.at - LastRequest.seen.mtime <= 120

\* the upstream fetch of the request has returned, with a body or without one
GotBody == LastRequest.fetched /\ LastRequest.up \notin {"<false>", ""}

GotNothing == LastRequest.fetched /\ LastRequest.up \in {"<false>", ""}

\* the body is one that upstream delivered, whole
WholeBody(b) == b \in {"gviz A", "gviz B"}

\* C33 (as stated): for a request with a sheet, a cache file of its key that exists and is
\* not older than 120 s is served without an upstream fetch; otherwise upstream is fetched,
\* and a non-empty upstream body replaces the cache file, which is then served.
FreshCacheServedElseFetched ==
    SheetRequested =>
        /\ WasFresh =>
              /\ ~LastRequest.fetched
              /\ fn.files = fn.before
              /\ fn.last.step = "arrive" => LastRequest.pc = "serve"
              /\ fn.last.step = "serve" =>
                    /\ LastRequest.status = 200
                    /\ LastRequest.body = fn.files[LastKey].body /\ WholeBody(LastRequest.body)
        /\ ~WasFresh =>
              /\ fn.last.step = "arrive" => LastRequest.pc = "fetching"
              /\ fn.last.step # "arrive" => LastRequest.fetched
              /\ (fn.last.step = "fetched" /\ GotBody) => LastRequest.pc = "writing"
              /\ fn.last.step = "written" =>
                    fn.files[LastKey] = [exists |-> TRUE, mtime |-> fn.now, body |-> LastRequest.up]
              /\ (fn.last.step = "serve" /\ GotBody) =>
                    /\ LastRequest.status = 200
                    /\ LastRequest.body = fn.files[LastKey].body /\ WholeBody(LastRequest.body)

\* C34 (as stated): a request without a sheet gets a 400 and touches neither cache nor
\* upstream; when the upstream fetch fails or returns an empty body, the request writes
\* no file, an existing cache file is served as it is, and a 502 is returned only when no
\* cache file exists.
UpstreamFailureServesStale ==
    (fn.op = "gviz.php" /\ fn.last.step # "none") =>
        /\ (fn.last.step = "arrive" /\ fn.last.sheet \in {"", " "}) =>
              /\ LastRequest.pc = "done" /\ LastRequest.status = 400
              /\ ~LastRequest.fetched /\ fn.files = fn.before
        /\ (fn.last.step = "fetched" /\ GotNothing) =>
              /\ fn.files = fn.before
              /\ fn.files[LastKey].exists => LastRequest.pc = "serve"
              /\ ~fn.files[LastKey].exists => (LastRequest.pc = "done" /\ LastRequest.status = 502)
        /\ (fn.last.step = "serve" /\ GotNothing) =>
              /\ fn.files = fn.before
              /\ fn.files[LastKey].exists
              /\ LastRequest.status = 200
              /\ LastRequest.body = fn.files[LastKey].body /\ WholeBody(LastRequest.body)
        /\ LastRequest.status = 502 =>
              (fn.last.step = "fetched" /\ GotNothing /\ ~fn.files[LastKey].exists)
        /\ LastRequest.status = 400 => fn.last.sheet \in {"", " "}

(***************************************************************************)
(* Properties of the client cache (specification SpecClientCache)          *)
(***************************************************************************)
\* the call that took the last step
LastCall == fn.calls[fn.last.call]

LooksLikeGviz(txt) == \E i \in 1..Len(txt) : txt[i] = "google.visualization.Query"

\* C35: without ?fresh a cached response is returned only if it is less than 300000 ms
\* old, and then it is; otherwise the network is fetched and the answer is stored only if
\* it looks like a GViz payload. With ?fresh the cache is neither read nor written and
\* every query goes to the network.
ClientCacheHonoursTTL ==
    (fn.op = "fetchGvizText" /\ fn.last.step # "none") =>
        /\ \A k \in DOMAIN fn.storage : k # LastCall.key => fn.storage[k] = fn.before[k]
        /\ fn.last.step = "lookup" =>
              /\ fn.storage = fn.before
              /\ LastCall.pc \in {"done", "awaiting"}
              /\ LastCall.networked <=> LastCall.pc = "awaiting"
              /\ ~fn.fresh =>
                    /\ LastCall.pc = "done" <=>
                          (fn.storage[LastCall.key].exists /\ fn.now - fn.storage[LastCall.key].t < 300000)
                    /\ LastCall.pc = "done" => LastCall.result = fn.storage[LastCall.key].txt
              /\ fn.fresh => LastCall.pc = "awaiting"
        /\ fn.last.step = "response" =>
              /\ fn.storage = fn.before
              /\ LastCall.networked
              /\ LastCall.pc \in {"done", "reading"}
              /\ LastCall.pc = "done" <=> LastCall.rejected
        /\ fn.last.step = "answer" =>
              /\ LastCall.pc = "done" /\ LastCall.networked
              /\ ~LastCall.rejected => LastCall.result = LastCall.net.txt
              /\ fn.storage # fn.before =>
                    /\ ~fn.fresh /\ ~LastCall.rejected /\ LooksLikeGviz(LastCall.net.txt)
                    /\ fn.storage[LastCall.key] =
                          [exists |-> TRUE, t |-> fn.now, txt |-> LastCall.net.txt]

\* C35 witness: a call made at 300000 found an entry stored at 0, which is 300000 ms old;
\* the network was fetched and the new payload took the entry's place
EntryAtTTLRefetched ==
    /\ fn.op = "fetchGvizText" /\ fn.last.step = "answer" /\ ~fn.fresh
    /\ LastCall.at = 300000
    /\ LastCall.seen.exists /\ LastCall.seen.t = 0
    /\ LastCall.networked
    /\ fn.storage[LastCall.key].t = fn.now
    /\ fn.storage[LastCall.key].txt # LastCall.seen.txt

(***************************************************************************)
(* Properties of the JSONP queries (specification SpecJsonp)               *)
(***************************************************************************)
\* the outcome an event gives a pending promise
OutcomeOf(ev, resp) ==
    CASE ev = "response" -> (IF resp = "table" THEN "resolved" ELSE "rejected: no table")
      [] ev = "error"    -> "rejected: load failed"
      [] ev = "timeout"  -> "rejected: timed out"

\* C36: for each JSONP query and every order of response, script error and timeout, the
\* promise has the outcome of the first event, whatever follows; once a response or a
\* timeout has been handled the global callback is removed, the timer cleared and the
\* script element detached.
FirstEventSettles ==
    fn.op = "gvizQuerySeries" =>
        \A q \in {"q1", "q2"} :
            LET s == fn.queries[q]
            IN  /\ (s.started /\ s.log = <<>>) => s.promise = "pending"
                /\ s.log # <<>> => s.promise = OutcomeOf(s.log[1], s.resp)
                /\ (\E i \in 1..Len(s.log) : s.log[i] \in {"response", "timeout"}) =>
                      (q \notin fn.window /\ q \notin fn.timers /\ q \notin fn.head)

\* C36 witness: q1 timed out, its script failed to load afterwards, and the promise still
\* says timed out; q2 is in flight with its callback, timer and script in place
ErrorAfterTimeoutIgnored ==
    /\ fn.op = "gvizQuerySeries"
    /\ fn.queries["q1"].log = <<"timeout", "error">>
    /\ fn.queries["q1"].promise = "rejected: timed out"
    /\ fn.queries["q2"].promise = "pending"
    /\ fn.window = {"q2"} /\ fn.timers = {"q2"} /\ fn.head = {"q2"}

(***************************************************************************)
(* Properties of the price in the e-mail configuration (SpecConfig)        *)
(***************************************************************************)
\* C37: the final_price that getConfig() reports equals LemonState.total, the total of
\* the most recent price calculation, for every reachable total including 0.
FinalPriceIsTotal ==
    (fn.op = "config" /\ page \in {"productInfo", "unified"} /\ event.kind = "read") =>
        fn.final_price = total

(***************************************************************************)
(* Frame of the settlement pass (specification Spec)                       *)
(***************************************************************************)
ProviderKeys(cat) == { providers(cat)[i].key : i \in 1..Len(providers(cat)) }

\* the two selections agree on group k: both lack an entry, or both hold the same value
SameEntry(a, b, k) == MapHas(a, k) = MapHas(b, k) /\ MapGet(a, k) = MapGet(b, k)

\* C38: the settlement pass (and the handler's prune before it) leaves the entry of every
\* provider group as it found it: none is added, removed or changed. A provider entry
\* changes only by the provider defaults at render time or by a user change on that group.
SettlementLeavesProviders ==
    (pc = "ready" /\ page \in DrawPages /\ event.kind \in {"load", "change"}) =>
        \A k \in ProviderKeys(optionsByCanon) :
            /\ SameEntry(selected, SettleInput, k)
            /\ (event.kind = "change" /\ k # event.k) => SameEntry(selected, event.before, k)
            /\ (event.kind = "change" /\ k = event.k) => MapGet(selected, k) = event.v

\* C38 witness: the user changed a provider, the settlement pass changed the selection of
\* a dependent, and the provider's entry is the user's choice
ProviderKeptWhileDependentsSettle ==
    /\ pc = "ready" /\ page \in DrawPages /\ event.kind = "change"
    /\ event.k \in ProviderKeys(optionsByCanon)
    /\ selected # SettleInput
    /\ MapGet(selected, event.k) = event.v
    /\ Cardinality(ProviderKeys(optionsByCanon)) = 2

(***************************************************************************)
(* Providers always hold a visible choice (specification Spec)             *)
(***************************************************************************)
VisibleNames(list) == { list[i].option_name : i \in { j \in 1..Len(list) : list[j].visible } }

\* C39: after initialisation and after every sequence of user changes, each provider
\* group with at least one visible option has a selection entry, and the entry names one
\* of the group's visible options.
ProvidersHoldVisibleChoice ==
    (pc = "ready" /\ page \in DrawPages) =>
        \A i \in 1..Len(providers(optionsByCanon)) :
            LET e == providers(optionsByCanon)[i]
            IN  VisibleNames(e.options) # {} =>
                    /\ MapHas(selected, e.key)
                    /\ MapGet(selected, e.key) \in VisibleNames(e.options)

\* C39 witness: no option of tone ring is flagged as default, tone ring holds Bronze and
\* the user has just changed the second provider to Dots
TwoProvidersAfterChanges ==
    /\ pc = "ready" /\ page \in DrawPages /\ event.kind = "change"
    /\ event.k = "inlay" /\ event.v = "Dots"
    /\ Len(providers(optionsByCanon)) = 2
    /\ \A j \in 1..Len(OptionsOf(optionsByCanon, "tone ring")) :
          ~OptionsOf(optionsByCanon, "tone ring")[j].is_default
    /\ MapGet(selected, "tone ring") = "Bronze"
    /\ MapGet(selected, "inlay") = "Dots"

(***************************************************************************)
(* pruneInvalidDependents against normalizeDependents alone (SpecTwin)     *)
(***************************************************************************)
\* C40: on a catalog whose dependencies are at most one hop deep, normalizeDependents
\* alone yields from any selection what pruneInvalidDependents followed by
\* normalizeDependents yields, and the prune call the change handler makes before draw()
\* does not change what the handler leaves.
PruneIsRedundantOneHop ==
    (fn.op = "settle" /\ fn.runs = 3 /\ OneHop(optionsByCanon)) =>
        /\ fn.alone.normalized = fn.outA
        /\ fn.alone.handledAlone = fn.alone.handled
        /\ fn.alone.handled = drawSettle(optionsByCanon, MapSet(fn.first, fn.alone.k, fn.alone.v))

\* C40 witness: on a one-hop catalog the first selection held an engraving that prune
\* removes, and the user then picked another tone ring
PruneRemovedWhatNormalizeRemoves ==
    /\ fn.op = "settle" /\ fn.runs = 3 /\ OneHop(optionsByCanon)
    /\ MapHas(fn.first, "engraving")
    /\ ~MapHas(pruneInvalidDependents(dependents(optionsByCanon), fn.first), "engraving")
    /\ fn.alone.k = "tone ring"
    /\ fn.alone.handled # fn.alone.normalized

====
